---- MODULE Spec2Model ----
(***************************************************************************)
(* Schema Mapper & Data Quality Fixer: the header mapping engine           *)
(* (src/src/mapper.py), the schema loader (src/src/schema_truth.py,        *)
(* src/src/persistence.py), the cleaning pass (src/src/clean_validate.py)  *)
(* and the Streamlit session that drives them (src/app.py).                *)
(*                                                                         *)
(* Strings are sequences of one-character strings, so that normalisation,  *)
(* pattern matching and edit distance are computed, not assumed.           *)
(* Confidences are hundredths (1.00 = 100).                                *)
(***************************************************************************)
EXTENDS Integers, Sequences, FiniteSets, TLC

VARIABLES
    schema_file,        \* content of TRUTH_PATH: Absent, Malformed or a sequence of field definitions
    truth,              \* the SchemaTruth loaded by the current script run
    raw_df,             \* st.session_state.raw_df
    mapping_result,     \* st.session_state.mapping_result (ordered dict) or None
    unmatched_headers,  \* st.session_state.unmatched_headers
    mapper_proposals,   \* st.session_state.mapper_proposals
    proposed_df,        \* st.session_state.proposed_df
    issues,             \* st.session_state.issues
    final_df,           \* st.session_state.final_df
    schema_changes,     \* st.session_state.schema_changes
    ui,                 \* what the last script run rendered
    call                \* the last engine call and its arguments

vars == <<schema_file, truth, raw_df, mapping_result, unmatched_headers,
          mapper_proposals, proposed_df, issues, final_df, schema_changes, ui, call>>

-----------------------------------------------------------------------------
(* Python values *)

\* Python's None; differs from every string, the empty string "" (<<>>) included
None == <<"#None">>

\* the empty string
EmptyStr == <<>>

\* bool(x) of an optional string: None and "" are falsy
Truthy(x) == x # None /\ x # EmptyStr

Min(a, b) == IF a <= b THEN a ELSE b
Max(a, b) == IF a >= b THEN a ELSE b

-----------------------------------------------------------------------------
(* Characters *)

UpperChars == <<"A","B","C","D","E","F","G","H","I","J","K","L","M",
                "N","O","P","Q","R","S","T","U","V","W","X","Y","Z">>
LowerChars == <<"a","b","c","d","e","f","g","h","i","j","k","l","m",
                "n","o","p","q","r","s","t","u","v","w","x","y","z">>
Digits == {"0","1","2","3","4","5","6","7","8","9"}
UpperSet == {UpperChars[i] : i \in 1..26}
LowerSet == {LowerChars[i] : i \in 1..26}
Whitespace == {" ", "\t", "\n"}

\* str.lower() and str.upper() on one character, as tables
LowerTable == [c \in UpperSet |-> LowerChars[CHOOSE i \in 1..26 : UpperChars[i] = c]]
UpperTable == [c \in LowerSet |-> UpperChars[CHOOSE i \in 1..26 : LowerChars[i] = c]]
LowerChar(c) == IF c \in UpperSet THEN LowerTable[c] ELSE c
UpperChar(c) == IF c \in LowerSet THEN UpperTable[c] ELSE c

\* str.lower()
Lower(s) == [i \in 1..Len(s) |-> LowerChar(s[i])]

\* str.upper()
Upper(s) == [i \in 1..Len(s) |-> UpperChar(s[i])]

RECURSIVE LStrip(_)
LStrip(s) == IF s # <<>> /\ Head(s) \in Whitespace THEN LStrip(Tail(s)) ELSE s

RECURSIVE RStrip(_)
RStrip(s) ==
    IF s # <<>> /\ s[Len(s)] \in Whitespace THEN RStrip(SubSeq(s, 1, Len(s) - 1)) ELSE s

\* str.strip()
Strip(s) == LStrip(RStrip(s))

\* re.sub(r"\s+", " ", s): every run of whitespace becomes one space
RECURSIVE CollapseWs(_)
CollapseWs(s) ==
    IF s = <<>> THEN <<>>
    ELSE IF Head(s) \in Whitespace
         THEN <<" ">> \o CollapseWs(LStrip(s))
         ELSE <<Head(s)>> \o CollapseWs(Tail(s))

\* s.replace(c, rep) for a single character c
RECURSIVE ReplaceChar(_, _, _)
ReplaceChar(s, c, rep) ==
    IF s = <<>> THEN <<>>
    ELSE (IF Head(s) = c THEN rep ELSE <<Head(s)>>) \o ReplaceChar(Tail(s), c, rep)

\* the characters of s that are in keep, in order
KeepChars(s, keep) == SelectSeq(s, LAMBDA c : c \in keep)

\* s starts with p
StartsWith(s, p) == Len(p) <= Len(s) /\ SubSeq(s, 1, Len(p)) = p

\* x occurs in the sequence q
InSeq(x, q) == \E i \in 1..Len(q) : q[i] = x

\* concatenation of a sequence of sequences
RECURSIVE Flatten(_)
Flatten(qq) == IF qq = <<>> THEN <<>> ELSE Head(qq) \o Flatten(Tail(qq))

-----------------------------------------------------------------------------
(* src/src/mapper.py: header normalisation *)

\* NON_ALNUM_RE = [^a-z0-9]: the characters it keeps
AlnumLower == LowerSet \cup Digits

\* _normalize_header
_normalize_header(text) ==
    IF text = None THEN EmptyStr
    ELSE LET lc0 == Lower(Strip(text))
             lc1 == CollapseWs(lc0)
             lc2 == ReplaceChar(lc1, "%", <<" ","p","c","t"," ">>)
             lc3 == ReplaceChar(lc2, "#", <<" ","n","u","m"," ">>)
         IN  KeepChars(lc3, AlnumLower)

-----------------------------------------------------------------------------
(* Optional values and insertion-ordered dicts *)

\* an optional structured value: Nothing is Python's None, Some(x) a set one
Nothing == <<>>
Some(x) == <<x>>
IsSome(o) == o # Nothing
The(o) == o[1]

\* A dict is a sequence of entries with distinct keys, in insertion order.
\* d[k] = v keeps the place of an existing key and appends a new one.
DictHas(d, k) == \E i \in 1..Len(d) : d[i].k = k
DictGet(d, k) == d[CHOOSE i \in 1..Len(d) : d[i].k = k].v
DictPut(d, k, v) ==
    IF DictHas(d, k)
    THEN [i \in 1..Len(d) |-> IF d[i].k = k THEN [k |-> k, v |-> v] ELSE d[i]]
    ELSE Append(d, [k |-> k, v |-> v])
DictKeys(d) == [i \in 1..Len(d) |-> d[i].k]

-----------------------------------------------------------------------------
(* src/src/persistence.py, src/src/schema_truth.py: the canonical schema *)

\* what TRUTH_PATH can hold besides a JSON object
Absent == [state |-> "absent", data |-> <<>>]
Malformed == [state |-> "malformed", data |-> <<>>]
JsonFile(data) == [state |-> "ok", data |-> data]

\* header_regex values: none given, one re.compile rejects, or a literal
\* pattern (optionally case-insensitive, optionally anchored at the end)
NoPattern == [kind |-> "none", text |-> <<>>, icase |-> FALSE, full |-> FALSE]
BadPattern == [kind |-> "bad", text |-> <<"(">>, icase |-> FALSE, full |-> FALSE]
Pat(text, icase, full) == [kind |-> "lit", text |-> text, icase |-> icase, full |-> full]

\* load_json_file(path, default): the default when the file is absent,
\* an exception when json.load fails, the parsed object otherwise
load_json_file(file, default) ==
    IF file.state = "absent" THEN [raised |-> FALSE, data |-> default]
    ELSE IF file.state = "malformed" THEN [raised |-> TRUE, data |-> <<>>]
    ELSE [raised |-> FALSE, data |-> file.data]

\* re.compile(pattern) inside try/except re.error; a falsy pattern is skipped
CompileHeaderRe(pattern) ==
    IF pattern.kind = "lit" /\ pattern.text # <<>> THEN pattern ELSE NoPattern

\* one field of load_schema_truth: _syn_lc and _header_re are added to the meta
LoadField(e) ==
    LET meta == e.v
        hdr == IF meta.header = None THEN e.k ELSE meta.header
        syn == meta.synonyms \o <<hdr>>
    IN  [k |-> e.k,
         v |-> [header |-> meta.header,
                description |-> meta.description,
                synonyms |-> meta.synonyms,
                header_regex |-> meta.header_regex,
                _syn_lc |-> [i \in 1..Len(syn) |-> Lower(Strip(syn[i]))],
                _header_re |-> CompileHeaderRe(meta.header_regex)]]

\* load_schema_truth(path)
load_schema_truth(file) ==
    LET r == load_json_file(file, <<>>)
    IN  IF r.raised THEN r
        ELSE [raised |-> FALSE, data |-> [i \in 1..Len(r.data) |-> LoadField(r.data[i])]]

\* canonical_keys(truth)
canonical_keys(t) == DictKeys(t)

\* re_obj.match(src): the pattern matches at the start of src
ReMatch(re_obj, src) ==
    /\ re_obj.kind = "lit"
    /\ LET s == IF re_obj.icase THEN Lower(src) ELSE src
           p == IF re_obj.icase THEN Lower(re_obj.text) ELSE re_obj.text
       IN  IF re_obj.full THEN s = p ELSE StartsWith(s, p)

-----------------------------------------------------------------------------
(* rapidfuzz.distance.Levenshtein.normalized_similarity *)

RECURSIVE LevFill(_, _, _, _)
LevFill(prev, ai, b, cur) ==
    IF Len(cur) = Len(b) + 1 THEN cur
    ELSE LET j == Len(cur)
             cost == IF ai = b[j] THEN 0 ELSE 1
             v == Min(Min(prev[j + 1] + 1, cur[j] + 1), prev[j] + cost)
         IN  LevFill(prev, ai, b, Append(cur, v))

RECURSIVE LevRows(_, _, _, _)
LevRows(a, b, i, prev) ==
    IF i > Len(a) THEN prev[Len(b) + 1]
    ELSE LevRows(a, b, i + 1, LevFill(prev, a[i], b, <<prev[1] + 1>>))

\* the edit distance with unit weights
Levenshtein(a, b) == LevRows(a, b, 1, [j \in 1..Len(b) + 1 |-> j - 1])

\* 1 - distance / max(len): the fraction num/den
normalized_similarity(a, b) ==
    LET m == Max(Len(a), Len(b))
    IN  IF m = 0 THEN [num |-> 1, den |-> 1]
        ELSE [num |-> m - Levenshtein(a, b), den |-> m]

\* comparisons of fractions with positive denominators
FracGt(x, y) == x.num * y.den > y.num * x.den
FracGe(x, y) == x.num * y.den >= y.num * x.den

-----------------------------------------------------------------------------
(* src/src/mapper.py: suggest_mapping *)

ConfCanonical == 100
ConfRegex == 90
ConfSynonym == 95
ConfFuzzy == 82
ConfLlm == 70
ConfOverride == 100
ConfUnmapped == 0
\* the fuzzy threshold 0.85, in hundredths
FuzzyThreshold == 85

Rec(canonical, confidence, method) ==
    [canonical |-> canonical, confidence |-> confidence, method |-> method]

\* learned_synonyms.get(canon, [])
LearnedFor(learned_synonyms, canon) ==
    IF DictHas(learned_synonyms, canon) THEN DictGet(learned_synonyms, canon) ELSE <<>>

\* the (normalized synonym, canonical) assignments of the lookup loop, in the
\* order the loop makes them: per field its _syn_lc, then its learned synonyms
SynAssignments(t, learned_synonyms) ==
    Flatten([i \in 1..Len(t) |->
        LET syns == t[i].v._syn_lc \o LearnedFor(learned_synonyms, t[i].k)
        IN  [j \in 1..Len(syns) |-> [k |-> _normalize_header(syns[j]), v |-> t[i].k]]])

\* syn_to_canon: a later assignment to the same key overwrites an earlier one
RECURSIVE DictFromPairs(_, _)
DictFromPairs(pairs, d) ==
    IF pairs = <<>> THEN d
    ELSE DictFromPairs(Tail(pairs), DictPut(d, Head(pairs).k, Head(pairs).v))

BuildSynToCanon(t, learned_synonyms) == DictFromPairs(SynAssignments(t, learned_synonyms), <<>>)

\* stage 1: the first key of truth whose compact key equals norm, or None
CanonicalStage(norm, t) ==
    IF \E i \in 1..Len(t) : _normalize_header(t[i].k) = norm
    THEN t[CHOOSE i \in 1..Len(t) :
               /\ _normalize_header(t[i].k) = norm
               /\ \A j \in 1..(i - 1) : _normalize_header(t[j].k) # norm].k
    ELSE None

\* stage 2: regex_hit, the first field whose compiled pattern matches src
RegexStage(src, t) ==
    IF \E i \in 1..Len(t) : ReMatch(t[i].v._header_re, src)
    THEN t[CHOOSE i \in 1..Len(t) :
               /\ ReMatch(t[i].v._header_re, src)
               /\ \A j \in 1..(i - 1) : ~ReMatch(t[j].v._header_re, src)].k
    ELSE None

\* stage 4: the scan that keeps the strictly highest score, starting at (None, 0.0)
FuzzyPairs(t) ==
    Flatten([i \in 1..Len(t) |->
        [j \in 1..Len(t[i].v._syn_lc) |-> [canon |-> t[i].k, syn |-> t[i].v._syn_lc[j]]]])

\* FuzzyScan that lets a later synonym with an equal score replace the best
RECURSIVE FuzzyScanLastWins(_, _, _)
FuzzyScanLastWins(norm, pairs, high) ==
    IF pairs = <<>> THEN high
    ELSE LET score == normalized_similarity(norm, _normalize_header(Head(pairs).syn))
         IN  FuzzyScanLastWins(norm, Tail(pairs),
                               IF FracGe(score, high.score)
                               THEN [canon |-> Head(pairs).canon, score |-> score]
                               ELSE high)

RECURSIVE FuzzyScan(_, _, _)
FuzzyScan(norm, pairs, high) ==
    IF pairs = <<>> THEN high
    ELSE LET score == normalized_similarity(norm, _normalize_header(Head(pairs).syn))
         IN  FuzzyScan(norm, Tail(pairs),
                       IF FracGt(score, high.score)
                       THEN [canon |-> Head(pairs).canon, score |-> score]
                       ELSE high)

FuzzyStage(norm, t) == FuzzyScan(norm, FuzzyPairs(t), [canon |-> None, score |-> [num |-> 0, den |-> 1]])

\* high[0] and high[1] >= 0.85
FuzzyAccepts(high) ==
    Truthy(high.canon) /\ FracGe(high.score, [num |-> FuzzyThreshold, den |-> 100])

\* MatchHeader with the pattern stage tried before the canonical stage
MatchHeaderPatternFirst(src, t, syn_to_canon) ==
    LET norm == _normalize_header(src)
        canon == CanonicalStage(norm, t)
        regex_hit == RegexStage(src, t)
        high == FuzzyStage(norm, t)
    IN  IF Truthy(regex_hit) THEN Rec(regex_hit, ConfRegex, "regex")
        ELSE IF canon # None THEN Rec(canon, ConfCanonical, "canonical")
        ELSE IF DictHas(syn_to_canon, norm) THEN Rec(DictGet(syn_to_canon, norm), ConfSynonym, "synonym")
        ELSE IF FuzzyAccepts(high) THEN Rec(high.canon, ConfFuzzy, "fuzzy")
        ELSE Rec(None, ConfUnmapped, "none")

\* MatchHeader with the synonym stage tried before the pattern stage
MatchHeaderSynonymFirst(src, t, syn_to_canon) ==
    LET norm == _normalize_header(src)
        canon == CanonicalStage(norm, t)
        regex_hit == RegexStage(src, t)
        high == FuzzyStage(norm, t)
    IN  IF canon # None THEN Rec(canon, ConfCanonical, "canonical")
        ELSE IF DictHas(syn_to_canon, norm) THEN Rec(DictGet(syn_to_canon, norm), ConfSynonym, "synonym")
        ELSE IF Truthy(regex_hit) THEN Rec(regex_hit, ConfRegex, "regex")
        ELSE IF FuzzyAccepts(high) THEN Rec(high.canon, ConfFuzzy, "fuzzy")
        ELSE Rec(None, ConfUnmapped, "none")

\* one iteration of the loop over source_headers: the record stored for src,
\* or method "none" when src is appended to unmatched
MatchHeader(src, t, syn_to_canon) ==
    LET norm == _normalize_header(src)
        canon == CanonicalStage(norm, t)
        regex_hit == RegexStage(src, t)
        high == FuzzyStage(norm, t)
    IN  IF canon # None THEN Rec(canon, ConfCanonical, "canonical")
        ELSE IF Truthy(regex_hit) THEN Rec(regex_hit, ConfRegex, "regex")
        ELSE IF DictHas(syn_to_canon, norm) THEN Rec(DictGet(syn_to_canon, norm), ConfSynonym, "synonym")
        ELSE IF FuzzyAccepts(high) THEN Rec(high.canon, ConfFuzzy, "fuzzy")
        ELSE Rec(None, ConfUnmapped, "none")

\* the loop over source_headers
RECURSIVE DeterministicPass(_, _, _, _)
DeterministicPass(headers, t, syn_to_canon, acc) ==
    IF headers = <<>> THEN acc
    ELSE LET src == Head(headers)
             r == MatchHeader(src, t, syn_to_canon)
         IN  DeterministicPass(Tail(headers), t, syn_to_canon,
                 IF r.method = "none"
                 THEN [acc EXCEPT !.unmatched = Append(@, src)]
                 ELSE [acc EXCEPT !.result = DictPut(@, src, r)])

\* llm_map.get(src): the reply is a dict from header to string
LlmGet(llm_map, src) == IF DictHas(llm_map, src) THEN DictGet(llm_map, src) ELSE None

\* the loop over unmatched of the LLM fallback
RECURSIVE LlmPass(_, _, _, _)
LlmPass(unmatched, t, llm_map, result) ==
    IF unmatched = <<>> THEN result
    ELSE LET src == Head(unmatched)
             canon == LlmGet(llm_map, src)
         IN  LlmPass(Tail(unmatched), t, llm_map,
                 DictPut(result, src,
                     IF DictHas(t, canon)
                     THEN Rec(canon, ConfLlm, "llm")
                     ELSE Rec(None, ConfUnmapped, "unmapped")))

\* lines 36-87: the lookup and the loop over source_headers
DeterministicStages(source_headers, t, learned_synonyms) ==
    DeterministicPass(source_headers, t, BuildSynToCanon(t, learned_synonyms),
                      [result |-> <<>>, unmatched |-> <<>>])

\* LlmFallback whose still_unmapped keeps only the headers without a record
LlmFallbackDropsUnmapped(det, t, use_llm, llm_map) ==
    IF use_llm /\ det.unmatched # <<>>
    THEN LET result == LlmPass(det.unmatched, t, llm_map, det.result)
         IN  [result |-> result,
              unmatched |-> SelectSeq(det.unmatched, LAMBDA s : ~DictHas(result, s))]
    ELSE det

\* lines 89-101: the optional fallback on what the loop left unmatched, with
\* the reply llm_map of map_headers_with_llm(unmatched, truth)
LlmFallback(det, t, use_llm, llm_map) ==
    IF use_llm /\ det.unmatched # <<>>
    THEN LET result == LlmPass(det.unmatched, t, llm_map, det.result)
         IN  [result |-> result,
              unmatched |-> SelectSeq(det.unmatched,
                    LAMBDA s : ~DictHas(result, s) \/ ~Truthy(DictGet(result, s).canonical))]
    ELSE det

\* suggest_mapping(source_headers, truth, learned_synonyms, use_llm)
suggest_mapping(source_headers, t, learned_synonyms, use_llm, llm_map) ==
    LlmFallback(DeterministicStages(source_headers, t, learned_synonyms), t, use_llm, llm_map)

\* OverrideOne that marks every header with an entry in overrides as overridden
OverrideOneAlways(e, overrides) ==
    LET meta == e.v
        canon == IF DictHas(overrides, e.k) THEN DictGet(overrides, e.k) ELSE meta.canonical
    IN  [k |-> e.k,
         v |-> Rec(canon,
                   IF DictHas(overrides, e.k) THEN ConfOverride ELSE meta.confidence,
                   IF DictHas(overrides, e.k) THEN "override" ELSE meta.method)]

\* OverrideOne that keeps the confidence of the record it overrides
OverrideOneKeepsConfidence(e, overrides) ==
    LET meta == e.v
        canon == IF DictHas(overrides, e.k) THEN DictGet(overrides, e.k) ELSE meta.canonical
    IN  [k |-> e.k,
         v |-> Rec(canon, meta.confidence,
                   IF canon = meta.canonical THEN meta.method ELSE "override")]

\* apply_mapping_overrides(mapping_result, overrides)
OverrideOne(e, overrides) ==
    LET meta == e.v
        canon == IF DictHas(overrides, e.k) THEN DictGet(overrides, e.k) ELSE meta.canonical
    IN  [k |-> e.k,
         v |-> Rec(canon,
                   IF canon = meta.canonical THEN meta.confidence ELSE ConfOverride,
                   IF canon = meta.canonical THEN meta.method ELSE "override")]

apply_mapping_overrides(mapping, overrides) ==
    [i \in 1..Len(mapping) |-> OverrideOne(mapping[i], overrides)]

-----------------------------------------------------------------------------
(* src/src/clean_validate.py: cell values and validators *)

\* A cell is a typed value: a str, an int or a float (v holds str(value)),
\* NaN (a float) or None.
StrCell(v) == [t |-> "str", v |-> v]
IntCell(v) == [t |-> "int", v |-> v]
FloatCell(v) == [t |-> "float", v |-> v]
NaNCell == [t |-> "nan", v |-> <<"n","a","n">>]
NoneCell == [t |-> "none", v |-> <<"N","o","n","e">>]

Letters == UpperSet \cup LowerSet
\* [A-Za-z0-9._%+-] and [A-Za-z0-9.-] of EMAIL_RE
EmailLocalChars == Letters \cup Digits \cup {".", "_", "%", "+", "-"}
EmailDomainChars == Letters \cup Digits \cup {".", "-"}

AllIn(s, from, to, chars) == \A i \in from..to : s[i] \in chars

\* EMAIL_RE.match(s): ^local+@domain+\.[A-Za-z]{2,}$
EmailFullMatch(s) ==
    \E a \in 2..Len(s) :
        /\ s[a] = "@"
        /\ AllIn(s, 1, a - 1, EmailLocalChars)
        /\ \E q \in (a + 2)..(Len(s) - 2) :
             /\ s[q] = "."
             /\ AllIn(s, a + 1, q - 1, EmailDomainChars)
             /\ AllIn(s, q + 1, Len(s), Letters)

\* the end of the match of the unanchored email pattern that starts at i
\* (0 when there is none): local+ runs to the first "@", domain+ is greedy and
\* backs off to the last "." that two or more letters follow, which are all taken
EmailMatchEnd(s, i) ==
    LET ats == {a \in (i + 1)..Len(s) : s[a] = "@" /\ AllIn(s, i, a - 1, EmailLocalChars)}
    IN  IF ats = {} THEN 0
        ELSE LET a == CHOOSE x \in ats : TRUE
                 dots == {q \in (a + 2)..(Len(s) - 2) :
                             /\ s[q] = "."
                             /\ AllIn(s, a + 1, q - 1, EmailDomainChars)
                             /\ s[q + 1] \in Letters /\ s[q + 2] \in Letters}
             IN  IF dots = {} THEN 0
                 ELSE LET q == CHOOSE x \in dots : \A y \in dots : y <= x
                      IN  CHOOSE e \in (q + 2)..Len(s) :
                              /\ AllIn(s, q + 1, e, Letters)
                              /\ (e = Len(s) \/ s[e + 1] \notin Letters)

\* re.search(email pattern, s).group(0), or None
EmailSearch(s) ==
    LET starts == {i \in 1..Len(s) : EmailMatchEnd(s, i) # 0}
    IN  IF starts = {} THEN None
        ELSE LET i == CHOOSE x \in starts : \A y \in starts : x <= y
             IN  SubSeq(s, i, EmailMatchEnd(s, i))

\* re.search(r"\d{7,}", s)
HasSevenDigitRun(s) == \E i \in 1..(Len(s) - 6) : AllIn(s, i, i + 6, Digits)

\* ORDER_ID_RE.match(s): ^ORD-\d{4}$
OrderIdMatch(s) ==
    /\ Len(s) = 8
    /\ SubSeq(s, 1, 4) = <<"O","R","D","-">>
    /\ AllIn(s, 5, 8, Digits)

\* PHONE_CLEAN_RE.sub("", v): drop everything outside [0-9+]
PhoneClean(s) == KeepChars(s, Digits \cup {"+"})
DigitsOnly(s) == KeepChars(s, Digits)
\* the least number of digits of a valid phone
MinPhoneDigits == 7

-----------------------------------------------------------------------------
(* Numbers and dates as the validators read them *)

DigitChars == <<"0","1","2","3","4","5","6","7","8","9">>
DigitVal(c) == (CHOOSE i \in 1..10 : DigitChars[i] = c) - 1

\* int(s) of a string of digits, and str(n) of a natural number
RECURSIVE NatOf(_)
NatOf(s) == IF s = <<>> THEN 0 ELSE 10 * NatOf(SubSeq(s, 1, Len(s) - 1)) + DigitVal(s[Len(s)])
RECURSIVE TextOf(_)
TextOf(n) == IF n < 10 THEN <<DigitChars[n + 1]>> ELSE Append(TextOf(n \div 10), DigitChars[(n % 10) + 1])

\* str(n) padded with zeros on the left to width w (f"{n:06d}", %Y, %m, %d)
RECURSIVE ZeroPad(_, _)
ZeroPad(s, w) == IF Len(s) >= w THEN s ELSE ZeroPad(<<"0">> \o s, w)

IsDigits(s) == s # <<>> /\ AllIn(s, 1, Len(s), Digits)

\* A float is held as its whole part w and its decimals f in ten-thousandths.
\* float(s) of an unsigned decimal literal with at most four decimals (d+,
\* d+., d+.d*, .d+); ok is false for every other text (signs, exponents, inf
\* and nan are outside the inputs)
FloatScale == 10000
DotAt(s) == IF InSeq(".", s) THEN CHOOSE i \in 1..Len(s) : s[i] = "." ELSE 0
ParseFloat(s) ==
    LET d == DotAt(s)
        whole == IF d = 0 THEN s ELSE SubSeq(s, 1, d - 1)
        frac == IF d = 0 THEN <<>> ELSE SubSeq(s, d + 1, Len(s))
        ok == /\ (whole # <<>> \/ frac # <<>>)
              /\ AllIn(whole, 1, Len(whole), Digits)
              /\ AllIn(frac, 1, Len(frac), Digits)
              /\ Len(frac) <= 4
    IN  [ok |-> ok,
         w |-> IF ok THEN NatOf(whole) ELSE 0,
         f |-> IF ok THEN NatOf(frac \o [i \in 1..(4 - Len(frac)) |-> "0"]) ELSE 0]

\* repr(x) of a float: at least one decimal, no trailing zeros
RECURSIVE DropTrailingZeros(_)
DropTrailingZeros(s) ==
    IF Len(s) > 1 /\ s[Len(s)] = "0" THEN DropTrailingZeros(SubSeq(s, 1, Len(s) - 1)) ELSE s
FloatText(w, f) ==
    TextOf(w) \o <<".">> \o DropTrailingZeros(ZeroPad(TextOf(f), 4))

\* the character U+20B9 (rupee sign), written as one element of a string
RupeeSign == "RUPEE"

\* NUM_STRIP_RE.sub("", s): spaces, commas and whitespace are dropped
NumStrip(s) == SelectSeq(s, LAMBDA c : c \notin (Whitespace \cup {","}))

\* _to_float(value): (float, ok)
_to_float(value) ==
    IF value.t \in {"none", "nan"} THEN [ok |-> FALSE, w |-> 0, f |-> 0]
    ELSE IF value.t \in {"int", "float"} THEN ParseFloat(value.v)
    ELSE ParseFloat(NumStrip(SelectSeq(Strip(value.v), LAMBDA c : c \notin {"%", RupeeSign})))

\* round(n / d) to the nearest whole number, halves to the even neighbour
RoundHalfEven(n, d) ==
    LET q == n \div d
        r == n % d
    IN  IF 2 * r > d \/ (2 * r = d /\ q % 2 = 1) THEN q + 1 ELSE q

\* _to_fraction(value): (float, ok), the float held in millionths; a number
\* outside [0, 1] is read as a percentage.  unit tells whether the result is
\* within [0, 1]; f is computed for such results only
FractionScale == 1000000
_to_fraction(value) ==
    LET text == IF value.t = "str"
                THEN LET lc == Lower(Strip(value.v))
                         cut == IF lc # <<>> /\ lc[Len(lc)] = "%"
                                THEN SubSeq(lc, 1, Len(lc) - 1) ELSE lc
                     IN  SelectSeq(cut, LAMBDA c : c # ",")
                ELSE value.v
        p == ParseFloat(text)
    IN  IF value.t \in {"none", "nan"} \/ ~p.ok THEN [ok |-> FALSE, unit |-> FALSE, f |-> 0]
        ELSE IF p.w = 0 \/ (p.w = 1 /\ p.f = 0)
        THEN [ok |-> TRUE, unit |-> TRUE, f |-> p.w * FractionScale + p.f * 100]
        ELSE IF p.w < 100 \/ (p.w = 100 /\ p.f = 0)
        THEN [ok |-> TRUE, unit |-> TRUE, f |-> p.w * FloatScale + p.f]
        ELSE [ok |-> TRUE, unit |-> FALSE, f |-> 0]

\* _to_int(value): (int, ok)
_to_int(value) ==
    LET r == _to_float(value)
    IN  [ok |-> r.ok, n |-> IF r.ok THEN r.w + RoundHalfEven(r.f + FloatScale * (r.w % 2), FloatScale) - (r.w % 2) ELSE 0]

\* the runs of digits of s, in order (the numeric tokens of the date lexer)
RECURSIVE DigitRuns(_, _, _)
DigitRuns(s, cur, acc) ==
    IF s = <<>> THEN (IF cur = <<>> THEN acc ELSE Append(acc, cur))
    ELSE IF Head(s) \in Digits THEN DigitRuns(Tail(s), Append(cur, Head(s)), acc)
    ELSE DigitRuns(Tail(s), <<>>, IF cur = <<>> THEN acc ELSE Append(acc, cur))

IsLeap(y) == (y % 4 = 0 /\ y % 100 # 0) \/ y % 400 = 0
DaysIn(y, m) ==
    IF m = 2 THEN (IF IsLeap(y) THEN 29 ELSE 28)
    ELSE IF m \in {4, 6, 9, 11} THEN 30 ELSE 31

\* dateutil's resolution of three numeric tokens with dayfirst=True, where the
\* year is the token of four digits: a leading year is followed by day then
\* month when the last number can be a month; a trailing year is preceded by
\* day then month when the first number exceeds 12 or the second can be a month
ResolveYmd(a, b, c, yearAt) ==
    IF yearAt = 1
    THEN IF c <= 12 THEN [y |-> a, d |-> b, m |-> c] ELSE [y |-> a, m |-> b, d |-> c]
    ELSE IF a > 12 \/ b <= 12 THEN [d |-> a, m |-> b, y |-> c]
    ELSE [m |-> a, d |-> b, y |-> c]

\* _parse_date(value): dateparser.parse(str(value), dayfirst=True, fuzzy=True)
\* .strftime("%Y-%m-%d") for a text of three numbers, one of them (the first
\* or the last) a four-digit year, the others of one or two digits
_parse_date(value) ==
    LET runs == DigitRuns(value.v, <<>>, <<>>)
        shaped == /\ value.t = "str"
                  /\ Len(runs) = 3
                  /\ Len(runs[2]) <= 2
                  /\ \/ (Len(runs[1]) = 4 /\ Len(runs[3]) <= 2)
                     \/ (Len(runs[3]) = 4 /\ Len(runs[1]) <= 2)
        ymd == ResolveYmd(NatOf(runs[1]), NatOf(runs[2]), NatOf(runs[3]),
                          IF Len(runs[1]) = 4 THEN 1 ELSE 3)
        ok == shaped /\ ymd.y >= 1 /\ ymd.m \in 1..12 /\ ymd.d >= 1 /\ ymd.d <= DaysIn(ymd.y, ymd.m)
    IN  [ok |-> ok,
         text |-> IF ok
                  THEN ZeroPad(TextOf(ymd.y), 4) \o <<"-">> \o ZeroPad(TextOf(ymd.m), 2)
                       \o <<"-">> \o ZeroPad(TextOf(ymd.d), 2)
                  ELSE <<>>]

\* CUST_ID_RE.match(s): ^CUST-\d{1,}$
CustIdMatch(s) ==
    /\ Len(s) >= 6
    /\ SubSeq(s, 1, 5) = <<"C","U","S","T","-">>
    /\ AllIn(s, 6, Len(s), Digits)

\* SKU_RE.match(s): ^[A-Z]{2}-\d{4}$
SkuMatch(s) ==
    /\ Len(s) = 7
    /\ AllIn(s, 1, 2, UpperSet)
    /\ s[3] = "-"
    /\ AllIn(s, 4, 7, Digits)

\* GSTIN_RE.match(s): ^[0-9]{2}[A-Z]{5}[0-9]{4}[A-Z]{1}[1-9A-Z]{1}Z[0-9A-Z]{1}$
GstinMatch(s) ==
    /\ Len(s) = 15
    /\ AllIn(s, 1, 2, Digits)
    /\ AllIn(s, 3, 7, UpperSet)
    /\ AllIn(s, 8, 11, Digits)
    /\ s[12] \in UpperSet
    /\ s[13] \in (UpperSet \cup (Digits \ {"0"}))
    /\ s[14] = "Z"
    /\ s[15] \in (UpperSet \cup Digits)

\* PIN6_RE.match(s): ^\d{6}$
Pin6Match(s) == Len(s) = 6 /\ AllIn(s, 1, 6, Digits)

\* _normalize_currency(value): the code of a symbol, of a synonym, or a
\* three-letter word in upper case; None otherwise
_normalize_currency(value) ==
    LET s == Strip(value.v)
        lc == Lower(s)
    IN  IF value.t # "str" THEN None
        ELSE IF s = <<RupeeSign>> THEN <<"I","N","R">>
        ELSE IF s = <<"$">> THEN <<"U","S","D">>
        ELSE IF lc \in {<<"i","n","r">>, <<"r","s">>, <<"r","u","p","e","e","s">>}
        THEN <<"I","N","R">>
        ELSE IF Len(s) = 3 /\ AllIn(s, 1, 3, Letters) THEN Upper(s)
        ELSE None

CleanResult(value, valid, reason, suggestion) ==
    [value |-> value, valid |-> valid, reason |-> reason, suggestion |-> suggestion]

TextFamilies ==
    {<<"b","i","l","l","i","n","g","_","a","d","d","r","e","s","s">>,
     <<"s","h","i","p","p","i","n","g","_","a","d","d","r","e","s","s">>,
     <<"c","i","t","y">>, <<"s","t","a","t","e">>, <<"c","o","u","n","t","r","y">>,
     <<"p","r","o","d","u","c","t","_","n","a","m","e">>,
     <<"c","a","t","e","g","o","r","y">>, <<"s","u","b","c","a","t","e","g","o","r","y">>}
AmountFamilies ==
    {<<"u","n","i","t","_","p","r","i","c","e">>, <<"s","h","i","p","p","i","n","g","_","f","e","e">>,
     <<"t","o","t","a","l","_","a","m","o","u","n","t">>}
PercentFamilies ==
    {<<"d","i","s","c","o","u","n","t","_","p","c","t">>, <<"t","a","x","_","p","c","t">>}
MaxPostal == 999999

\* validate_and_clean(canonical, value), one branch per field family in the
\* order of the source
validate_and_clean(canonical, value) ==
    LET orig == value
        isStr == value.t = "str"
        v == IF isStr THEN Strip(value.v) ELSE value.v
        vcell == IF isStr THEN StrCell(v) ELSE value
        noSpace == SelectSeq(v, LAMBDA c : c # " ")
    IN  IF canonical = <<"o","r","d","e","r","_","i","d">>
        THEN IF isStr /\ OrderIdMatch(Upper(v))
             THEN CleanResult(StrCell(Upper(v)), TRUE, "", Nothing)
             ELSE CleanResult(orig, FALSE, "Invalid order_id format", Nothing)
        ELSE IF canonical = <<"o","r","d","e","r","_","d","a","t","e">>
        THEN LET parsed == _parse_date(vcell)
             IN  IF parsed.ok /\ parsed.text # <<>>
                 THEN CleanResult(StrCell(parsed.text), TRUE, "", Nothing)
                 ELSE CleanResult(orig, FALSE, "Unparseable date", Nothing)
        ELSE IF canonical = <<"c","u","s","t","o","m","e","r","_","i","d">>
        THEN IF isStr /\ CustIdMatch(Upper(noSpace))
             THEN CleanResult(StrCell(Upper(noSpace)), TRUE, "", Nothing)
             ELSE CleanResult(orig, FALSE, "Invalid customer_id format", Nothing)
        ELSE IF canonical = <<"c","u","s","t","o","m","e","r","_","n","a","m","e">>
        THEN CleanResult(vcell, TRUE, "", Nothing)
        ELSE IF canonical = <<"e","m","a","i","l">>
        THEN LET e == KeepChars(v, {c \in {v[i] : i \in 1..Len(v)} : c # " "})
             IN  IF isStr /\ EmailFullMatch(e)
                 THEN CleanResult(StrCell(e), TRUE, "", Nothing)
                 ELSE IF isStr /\ HasSevenDigitRun(e)
                 THEN CleanResult(NoneCell, FALSE, "Phone found in email field", Nothing)
                 ELSE CleanResult(NoneCell, FALSE, "Invalid email", Nothing)
        ELSE IF canonical = <<"p","h","o","n","e">>
        THEN IF isStr
             THEN IF InSeq("@", v)
                  THEN CleanResult(NoneCell, FALSE, "Email found in phone field", Nothing)
                  ELSE IF Len(DigitsOnly(PhoneClean(v))) >= MinPhoneDigits
                  THEN CleanResult(StrCell(PhoneClean(v)), TRUE, "", Nothing)
                  ELSE CleanResult(NoneCell, FALSE, "Invalid phone", Nothing)
             ELSE CleanResult(orig, TRUE, "", Nothing)
        ELSE IF canonical \in TextFamilies
        THEN CleanResult(vcell, TRUE, "", Nothing)
        ELSE IF canonical = <<"p","o","s","t","a","l","_","c","o","d","e">>
        THEN LET num == ParseFloat(v)
                 n == _to_int(value).n
                 ds == KeepChars(noSpace, Digits)
             IN  IF value.t \in {"int", "float"} /\ num.ok /\ n <= MaxPostal
                 THEN CleanResult(StrCell(ZeroPad(TextOf(n), 6)), TRUE, "", Nothing)
                 ELSE IF isStr /\ Pin6Match(noSpace)
                 THEN CleanResult(StrCell(noSpace), TRUE, "", Nothing)
                 ELSE IF isStr /\ Len(ds) = 6
                 THEN CleanResult(orig, FALSE, "Postal code must be 6 digits", Some(ds))
                 ELSE CleanResult(orig, FALSE, "Postal code must be 6 digits", Nothing)
        ELSE IF canonical = <<"p","r","o","d","u","c","t","_","s","k","u">>
        THEN IF isStr /\ SkuMatch(Strip(Upper(v)))
             THEN CleanResult(StrCell(Strip(Upper(v))), TRUE, "", Nothing)
             ELSE CleanResult(orig, FALSE, "Invalid SKU format", Nothing)
        ELSE IF canonical = <<"q","u","a","n","t","i","t","y">>
        THEN LET iv == _to_int(vcell)
             IN  IF iv.ok
                 THEN CleanResult(IntCell(TextOf(iv.n)), TRUE, "", Nothing)
                 ELSE CleanResult(orig, FALSE, "Invalid quantity", Nothing)
        ELSE IF canonical = <<"c","u","r","r","e","n","c","y">>
        THEN LET cv == _normalize_currency(vcell)
             IN  IF cv # None
                 THEN CleanResult(StrCell(cv), TRUE, "", Nothing)
                 ELSE CleanResult(orig, FALSE, "Unknown currency", Nothing)
        ELSE IF canonical \in PercentFamilies
        THEN LET fv == _to_fraction(vcell)
                 r == RoundHalfEven(fv.f, FractionScale \div FloatScale)
             IN  IF fv.ok /\ fv.unit
                 THEN CleanResult(FloatCell(FloatText(r \div FloatScale, r % FloatScale)),
                                  TRUE, "", Nothing)
                 ELSE CleanResult(orig, FALSE, "Invalid percent value", Nothing)
        ELSE IF canonical \in AmountFamilies
        THEN LET fv == _to_float(vcell)
                 reason == IF canonical = <<"u","n","i","t","_","p","r","i","c","e">>
                           THEN "Invalid unit_price"
                           ELSE IF canonical = <<"s","h","i","p","p","i","n","g","_","f","e","e">>
                           THEN "Invalid shipping_fee" ELSE "Invalid total_amount"
             IN  IF fv.ok
                 THEN CleanResult(FloatCell(FloatText(fv.w, fv.f)), TRUE, "", Nothing)
                 ELSE CleanResult(orig, FALSE, reason, Nothing)
        ELSE IF canonical = <<"t","a","x","_","i","d">>
        THEN IF isStr /\ GstinMatch(Upper(v))
             THEN CleanResult(StrCell(Upper(v)), TRUE, "", Nothing)
             ELSE CleanResult(orig, FALSE, "Invalid GSTIN format", Nothing)
        ELSE CleanResult(orig, TRUE, "", Nothing)

\* the test of line 332: None, NaN or a blank string
IsNullCell(val) ==
    \/ val.t = "none"
    \/ val.t = "nan"
    \/ (val.t = "str" /\ Strip(val.v) = <<>>)

\* str(raw_row[col]) if pd.notna(raw_row[col]) else "", stripped
HelperText(cell) == IF cell.t \in {"nan", "none"} THEN <<>> ELSE Strip(cell.v)

\* _extract_email_from_row(raw_row, helper_cols); raw_row maps a header to a cell
RECURSIVE _extract_email_from_row(_, _)
_extract_email_from_row(raw_row, helper_cols) ==
    IF helper_cols = <<>> THEN None
    ELSE LET val == IF DictHas(raw_row, Head(helper_cols))
                    THEN HelperText(DictGet(raw_row, Head(helper_cols))) ELSE <<>>
         IN  IF val # <<>> /\ EmailFullMatch(val) THEN val
             ELSE IF val # <<>> /\ EmailSearch(val) # None THEN EmailSearch(val)
             ELSE _extract_email_from_row(raw_row, Tail(helper_cols))

\* _extract_phone_from_row(raw_row, helper_cols)
RECURSIVE _extract_phone_from_row(_, _)
_extract_phone_from_row(raw_row, helper_cols) ==
    IF helper_cols = <<>> THEN None
    ELSE LET val == IF DictHas(raw_row, Head(helper_cols))
                    THEN HelperText(DictGet(raw_row, Head(helper_cols))) ELSE <<>>
         IN  IF val # <<>> /\ Len(DigitsOnly(PhoneClean(val))) >= MinPhoneDigits
             THEN PhoneClean(val)
             ELSE _extract_phone_from_row(raw_row, Tail(helper_cols))

-----------------------------------------------------------------------------
(* src/src/clean_validate.py: build_proposed_clean_df *)

\* A DataFrame: its column labels and its rows (each a sequence of cells, one
\* per column); the index is the RangeIndex 0..n-1 of read_csv.
Frame(columns, rows) == [columns |-> columns, rows |-> rows]

\* raw_df.loc[idx] as a dict from header to cell (idx counts from 0)
RawRow(df, idx) == [c \in 1..Len(df.columns) |-> [k |-> df.columns[c], v |-> df.rows[idx + 1][c]]]

\* sub occurs in s
Contains(s, sub) == \E i \in 0..(Len(s) - Len(sub)) : SubSeq(s, i + 1, i + Len(sub)) = sub

HelperKeywords == {<<"c","o","n","t","a","c","t">>, <<"m","o","b","i","l","e">>,
                   <<"p","h","o","n","e">>, <<"e","m","a","i","l">>,
                   <<"e","-","m","a","i","l">>}

\* helper_cols of line 324
HelperCols(df) ==
    SelectSeq(df.columns, LAMBDA c : \E kw \in HelperKeywords : Contains(Lower(c), kw))

Issue(row_index, column, value, reason, suggestion, proposal) ==
    [row_index |-> row_index, column |-> column, value |-> value, reason |-> reason,
     suggestion |-> suggestion, proposal |-> proposal]

\* an optional string (None when absent) as an optional suggestion
OptSuggestion(x) == IF Truthy(x) THEN Some(x) ELSE Nothing

\* the value the cell-repair collaborator proposes in the runs where it answers
RepairValue == <<"O","R","D","-","0","0","0","1">>

\* _with_retries(func, max_retries=2): func is called until it returns or has
\* raised max_retries + 1 times.  outcomes[i] tells whether the i-th call of
\* func returns; the result is the number of calls made and whether the last
\* exception was raised again.
MaxRetries == 2
RECURSIVE RetryFrom(_, _)
RetryFrom(outcomes, attempt) ==
    IF outcomes[attempt + 1] THEN [attempts |-> attempt + 1, raised |-> FALSE]
    ELSE IF attempt >= MaxRetries THEN [attempts |-> attempt + 1, raised |-> TRUE]
    ELSE RetryFrom(outcomes, attempt + 1)
_with_retries(outcomes) == RetryFrom(outcomes, 0)

\* what the cell-repair collaborator does with the requests of one pass:
\* every request fails ("fails"), or every request is answered
RepairOutcomes(repair) == [i \in 1..(MaxRetries + 1) |-> repair # "fails"]

\* clean_value_with_llm(column, value, description): None without a key or for
\* an empty value; otherwise the stripped reply, None when it is empty or the
\* request failed.  repair is what the collaborator does in this pass.
clean_value_with_llm(column, value, repair) ==
    IF repair = "nokey" \/ value = <<>> THEN None
    ELSE IF _with_retries(RepairOutcomes(repair)).raised THEN None
    ELSE IF repair = "suggests" THEN Strip(RepairValue)
    ELSE None

\* whether clean_value_with_llm sends a request (lines 123-135)
RepairRequested(value, repair) == repair # "nokey" /\ value # <<>>

\* the requests clean_value_with_llm sends for the cell of row idx, one per
\* call that _with_retries makes; each carries the column and the value (the
\* row index tells the cells of one column apart)
RepairRequests(idx, column, value, repair) ==
    IF RepairRequested(value, repair)
    THEN [i \in 1.._with_retries(RepairOutcomes(repair)).attempts |->
             [row_index |-> idx, column |-> column, value |-> value]]
    ELSE <<>>

\* mapped_canon of line 285: the (source, canonical) pairs with a truthy
\* canonical, in the order of mapping_result
MappedCanon(mapping) ==
    LET kept == SelectSeq(mapping, LAMBDA e : Truthy(e.v.canonical))
    IN  [i \in 1..Len(kept) |-> [k |-> kept[i].k, v |-> kept[i].v.canonical]]

\* source_to_canon of line 296
SourceToCanon(df, mapping) == SelectSeq(MappedCanon(mapping), LAMBDA e : InSeq(e.k, df.columns))

\* ordered_pairs of lines 300-306: the first pair of each canonical field
RECURSIVE OrderedPairs(_, _)
OrderedPairs(pairs, acc) ==
    IF pairs = <<>> THEN acc
    ELSE OrderedPairs(Tail(pairs),
                      IF \E i \in 1..Len(acc) : acc[i].v = Head(pairs).v
                      THEN acc ELSE Append(acc, Head(pairs)))

ColumnIndex(df, header) == CHOOSE c \in 1..Len(df.columns) : df.columns[c] = header

\* mapped_df with the missing canonical columns added as None (lines 308-319):
\* per canonical field of truth the source column it is read from, or None.
\* The frame has the rows of raw_df only when at least one column is mapped.
SourceOf(ordered_pairs, canon) ==
    IF \E i \in 1..Len(ordered_pairs) : ordered_pairs[i].v = canon
    THEN ordered_pairs[CHOOSE i \in 1..Len(ordered_pairs) : ordered_pairs[i].v = canon].k
    ELSE None

MappedFrame(df, ordered_pairs, canon_order) ==
    LET n == IF ordered_pairs = <<>> THEN 0 ELSE Len(df.rows)
    IN  Frame(canon_order,
              [r \in 1..n |->
                  [c \in 1..Len(canon_order) |->
                      LET src == SourceOf(ordered_pairs, canon_order[c])
                      IN  IF src = None THEN NoneCell
                          ELSE df.rows[r][ColumnIndex(df, src)]]])

\* CleanCell without the null test of line 332: every cell goes to its validator
CleanCellNoNullTest(df, idx, col, val, helper_cols, use_llm, repair) ==
    LET res == validate_and_clean(col, val)
    IN  [value |-> res.value,
         issue |-> IF res.valid THEN Nothing
                   ELSE Some(Issue(Some(idx), col, val, res.reason, Nothing, Nothing)),
         requests |-> <<>>]

\* a non-null cell once its validator has answered res (lines 343-370)
InvalidOrCleaned(idx, col, val, raw_row, helper_cols, use_llm, repair, res) ==
    LET viaLlm == /\ res.suggestion = Nothing
                  /\ col # <<"e","m","a","i","l">> /\ col # <<"p","h","o","n","e">>
                  /\ use_llm
        sugg == IF res.suggestion # Nothing THEN res.suggestion
                ELSE IF col = <<"e","m","a","i","l">>
                THEN OptSuggestion(_extract_email_from_row(raw_row, helper_cols))
                ELSE IF col = <<"p","h","o","n","e">>
                THEN OptSuggestion(_extract_phone_from_row(raw_row, helper_cols))
                ELSE IF use_llm
                THEN LET s == clean_value_with_llm(col, val.v, repair)
                     IN  IF s # None THEN Some(s) ELSE Nothing
                ELSE Nothing
    IN  IF res.valid THEN [value |-> res.value, issue |-> Nothing, requests |-> <<>>]
        ELSE [value |-> res.value,
              issue |-> Some(Issue(Some(idx), col, val, res.reason, sugg, Nothing)),
              requests |-> IF viaLlm THEN RepairRequests(idx, col, val.v, repair)
                           ELSE <<>>]

\* one cell of the validation loop (lines 330-370): the new value, the issue
\* (if any) and the requests sent to the cell-repair collaborator
CleanCell(df, idx, col, val, helper_cols, use_llm, repair) ==
    LET raw_row == RawRow(df, idx)
    IN  IF IsNullCell(val)
        THEN LET sugg == IF col = <<"e","m","a","i","l">>
                         THEN _extract_email_from_row(raw_row, helper_cols)
                         ELSE IF col = <<"p","h","o","n","e">>
                         THEN _extract_phone_from_row(raw_row, helper_cols)
                         ELSE None
             IN  [value |-> val,
                  issue |-> Some(Issue(Some(idx), col, val, "Null or empty", OptSuggestion(sugg), Nothing)),
                  requests |-> <<>>]
        ELSE InvalidOrCleaned(idx, col, val, raw_row, helper_cols, use_llm, repair,
                              validate_and_clean(col, val))

\* CleanCells that visits the columns from the last to the first
CleanCellsLastColumnFirst(df, proposed, helper_cols, use_llm, repair) ==
    [c \in 1..Len(proposed.columns) |->
        [r \in 1..Len(proposed.rows) |->
            CleanCell(df, r - 1, proposed.columns[Len(proposed.columns) + 1 - c],
                      proposed.rows[r][Len(proposed.columns) + 1 - c],
                      helper_cols, use_llm, repair)]]

\* the validation loop, column by column and row by row inside a column
CleanCells(df, proposed, helper_cols, use_llm, repair) ==
    [c \in 1..Len(proposed.columns) |->
        [r \in 1..Len(proposed.rows) |->
            CleanCell(df, r - 1, proposed.columns[c], proposed.rows[r][c],
                      helper_cols, use_llm, repair)]]

\* the Some(x) of a sequence of optional values, in order
Somes(q) == LET kept == SelectSeq(q, LAMBDA o : o # Nothing)
            IN  [i \in 1..Len(kept) |-> The(kept[i])]

\* the proposed frame and the issue list, from the cells of the validation loop
AssembleResult(df, canon_order, schema_proposals, source_to_canon, mapped_df, cols_in_order, cells) ==
    LET cell_issues == Flatten([c \in 1..Len(cells) |->
                           Somes([r \in 1..Len(cells[c]) |-> cells[c][r].issue])])
        proposed == Frame(cols_in_order,
                          [r \in 1..Len(mapped_df.rows) |->
                              [c \in 1..Len(cols_in_order) |-> cells[c][r].value]])
        missing == SelectSeq(canon_order, LAMBDA c : ~InSeq(c, proposed.columns))
        extra_cols == SelectSeq(df.columns, LAMBDA c : ~DictHas(source_to_canon, c))
    IN  [proposed |-> proposed,
         issues |->
            cell_issues
            \o [i \in 1..Len(missing) |->
                   Issue(Nothing, missing[i], NoneCell, "Missing column (unmapped)", Nothing, Nothing)]
            \o [i \in 1..Len(extra_cols) |->
                   Issue(Nothing, extra_cols[i], NoneCell, "Extra column", Nothing, Nothing)]
            \o [i \in 1..Len(schema_proposals) |->
                   Issue(Nothing, schema_proposals[i].k, NoneCell, "New header proposal",
                         Nothing, Some(schema_proposals[i].v))],
         requests |-> Flatten([c \in 1..Len(cells) |->
                         Flatten([r \in 1..Len(cells[c]) |-> cells[c][r].requests])])]

\* build_proposed_clean_df(raw_df, mapping_result, truth, clean_pack, use_llm)
\* with the reply schema_proposals of propose_schema_for_headers and the
\* behaviour repair of the cell-repair collaborator
build_proposed_clean_df(df, mapping, t, use_llm, proposals_reply, repair) ==
    LET mapped_canon == MappedCanon(mapping)
        unmapped_headers == SelectSeq(df.columns, LAMBDA c : ~DictHas(mapped_canon, c))
        schema_proposals == IF use_llm /\ unmapped_headers # <<>> THEN proposals_reply ELSE <<>>
        source_to_canon == SourceToCanon(df, mapping)
        ordered_pairs == OrderedPairs(source_to_canon, <<>>)
        canon_order == DictKeys(t)
        mapped_df == MappedFrame(df, ordered_pairs, canon_order)
        cols_in_order == SelectSeq(canon_order, LAMBDA c : InSeq(c, mapped_df.columns))
        helper_cols == HelperCols(df)
    IN  AssembleResult(df, canon_order, schema_proposals, source_to_canon, mapped_df, cols_in_order,
                       CleanCells(df, mapped_df, helper_cols, use_llm, repair))

-----------------------------------------------------------------------------
(* Bounded inputs: field names, source headers, schema files *)

K_order_id == <<"o","r","d","e","r","_","i","d">>
K_email == <<"e","m","a","i","l">>
K_phone == <<"p","h","o","n","e">>
K_contact == <<"c","o","n","t","a","c","t">>
K_Order_ID == <<"O","r","d","e","r","_","I","D">>
K_notes == <<"n","o","t","e","s">>

H_order_id == K_order_id
H_Order_ID == <<"O","r","d","e","r"," ","I","D">>
H_Order_No == <<"O","r","d","e","r"," ","N","o">>
H_E_Mail == <<"E","-","M","a","i","l">>
H_Email_Addr == <<"E","m","a","i","l"," ","A","d","d","r">>
H_Email_Adr == <<"E","m","a","i","l"," ","A","d","r">>
H_Notes == <<"N","o","t","e","s">>
H_Mobile_Contact == <<"M","o","b","i","l","e","/","C","o","n","t","a","c","t">>
H_Ref_Num == <<"R","e","f"," ","#">>
H_Oder_ID == <<"O","d","e","r","_","I","D">>

S_order_no == <<"o","r","d","e","r"," ","n","o">>
S_ref_num == <<"r","e","f"," ","n","u","m">>
S_email_addr == <<"E","m","a","i","l"," ","A","d","d","r"," ">>
S_mobile == <<"m","o","b","i","l","e">>
S_notes == <<"N","o","t","e","s">>

P_Order == <<"O","r","d","e","r">>
P_E == <<"E">>
P_Email == <<"E","m","a","i","l">>

FieldDef(key, header, description, synonyms, header_regex) ==
    [k |-> key,
     v |-> [header |-> header, description |-> description,
            synonyms |-> synonyms, header_regex |-> header_regex]]

\* a plain schema: order_id, email, phone
FileA == JsonFile(<<
    FieldDef(K_order_id, None, "order id", <<S_order_no, S_ref_num>>, Pat(P_Order, TRUE, FALSE)),
    FieldDef(K_email, K_email, "email", <<S_email_addr>>, NoPattern),
    FieldDef(K_phone, K_phone, "phone", <<S_mobile>>, BadPattern)>>)

\* a schema whose patterns and synonyms cross its field names: the pattern of
\* contact matches "E-Mail" and "Email Addr", "order no" is a synonym of email,
\* and Order_ID has the compact key of order_id
FileB == JsonFile(<<
    FieldDef(K_contact, K_contact, "contact", <<>>, Pat(P_E, FALSE, FALSE)),
    FieldDef(K_order_id, K_order_id, "order id", <<S_ref_num>>, Pat(P_Order, TRUE, FALSE)),
    FieldDef(K_email, K_email, "email", <<S_order_no, S_email_addr>>, Pat(P_Email, TRUE, FALSE)),
    FieldDef(K_Order_ID, K_Order_ID, "order id 2", <<>>, NoPattern)>>)

SchemaFiles == {Absent, Malformed, FileA, FileB}

HeaderPool == {H_order_id, H_Order_ID, H_Order_No, H_E_Mail, H_Email_Addr,
               H_Email_Adr, H_Notes, H_Mobile_Contact, H_Ref_Num, H_Oder_ID}

\* the longest list of source headers / the widest raw table
MaxCols == 2
\* the number of apply_mapping_overrides calls after one suggest_mapping
MaxOverrideCalls == 2

\* the sequences of distinct elements of S of length at most n
RECURSIVE DistinctSeqs(_, _)
DistinctSeqs(S, n) ==
    IF n = 0 THEN {<<>>}
    ELSE LET shorter == DistinctSeqs(S, n - 1)
         IN  shorter \cup
             {Append(p[1], p[2]) :
                 p \in {pp \in shorter \X S : Len(pp[1]) = n - 1 /\ ~InSeq(pp[2], pp[1])}}

HeaderLists == DistinctSeqs(HeaderPool, MaxCols)

\* the schemas the engine is called with: every loadable schema file
Truths == {load_schema_truth(f).data : f \in {g \in SchemaFiles : ~load_schema_truth(g).raised}}

\* the learned synonyms the engine is called with: none, the schema's own
\* synonyms (what app.py passes), or "Notes" learned for the first field
SchemaSynonyms(t) == [i \in 1..Len(t) |-> [k |-> t[i].k, v |-> t[i].v.synonyms]]
LearnedChoices(t) ==
    {<<>>, SchemaSynonyms(t)} \cup
    (IF t = <<>> THEN {} ELSE {<<[k |-> t[1].k, v |-> <<S_notes>>]>>})

\* the replies of map_headers_with_llm(unmatched, truth): {} when there is no
\* key or the request failed, otherwise a string per header (a key of truth,
\* or the empty string) for some or all of the headers
LlmAnswers(t) == {t[i].k : i \in 1..Len(t)} \cup {EmptyStr}

RECURSIVE LlmReplies(_, _)
LlmReplies(unmatched, t) ==
    IF unmatched = <<>> THEN {<<>>}
    ELSE LET rest == LlmReplies(Tail(unmatched), t)
         IN  rest \cup {<<[k |-> Head(unmatched), v |-> a]>> \o r : a \in LlmAnswers(t), r \in rest}

-----------------------------------------------------------------------------
(* src/src/csv_loader.py: the raw table as pd.read_csv types it *)

\* the text of a CSV cell is a string; the empty string is a missing value
IsIntText(x) == x # <<>> /\ AllIn(x, 1, Len(x), Digits)

\* pd.read_csv infers one dtype per column: int64 when every cell is an
\* integer, float64 when the cells are integers and missing values (or all
\* missing), object (str, with NaN for missing values) otherwise
ReadColumnCell(columnText, x) ==
    LET present == SelectSeq(columnText, LAMBDA y : y # <<>>)
        numeric == \A i \in 1..Len(present) : IsIntText(present[i])
    IN  IF x = <<>> THEN NaNCell
        ELSE IF numeric /\ Len(present) = Len(columnText) THEN IntCell(x)
        ELSE IF numeric THEN FloatCell(x \o <<".", "0">>)
        ELSE StrCell(x)

\* read_csv_fallback(uploaded_file): the DataFrame of a CSV text
read_csv_fallback(columns, textRows) ==
    Frame(columns,
          [r \in 1..Len(textRows) |->
              [c \in 1..Len(columns) |->
                  ReadColumnCell([q \in 1..Len(textRows) |-> textRows[q][c]], textRows[r][c])]])

-----------------------------------------------------------------------------
(* Bounded inputs: raw tables *)

T_empty == <<>>
T_order == <<"o","r","d","-","0","0","0","1">>
T_email == <<"a","@","b",".","c","o">>
T_digits == <<"9","8","7","6","5","4","3","2","1","0">>
T_spaced == <<"9","8","7","6","5"," ","4","3","2","1","0">>

CellTexts == {T_empty, T_order, T_email, T_digits, T_spaced}

\* the column lists of the tables that carry rows
DataHeaderLists ==
    {<<H_E_Mail>>,
     <<H_Notes, H_E_Mail>>,
     <<H_E_Mail, H_Email_Addr>>,
     <<H_order_id, H_Mobile_Contact>>,
     <<H_Mobile_Contact, H_E_Mail>>}

\* the most rows of a raw table
MaxRows == 1

\* the sequences over S of length exactly n, and of length at most n
RECURSIVE SeqsOfLen(_, _)
SeqsOfLen(S, n) ==
    IF n = 0 THEN {<<>>} ELSE {Append(q, x) : q \in SeqsOfLen(S, n - 1), x \in S}
SeqsUpTo(S, n) == UNION {SeqsOfLen(S, k) : k \in 0..n}

\* a table of two rows whose column order differs from the order of the
\* fields the columns can be mapped to
TallTables ==
    {read_csv_fallback(<<H_E_Mail, H_Notes>>,
                       <<<<T_digits, T_email>>, <<T_empty, T_spaced>>>>)}

DataTables ==
    UNION {{read_csv_fallback(h, rows) : rows \in SeqsUpTo(SeqsOfLen(CellTexts, Len(h)), MaxRows)} :
               h \in DataHeaderLists}
    \cup TallTables

\* tables of headers only (no rows), for the calls of the mapper alone
HeaderTables == {Frame(h, <<>>) : h \in HeaderLists}
OverrideTables == {Frame(h, <<>>) : h \in DataHeaderLists}

\* the field proposal of propose_schema_for_headers for source header src:
\* the proposed name, and src itself as the only synonym
Proposal(src, header) ==
    [header |-> header, description |-> "proposed", synonyms |-> <<src>>,
     header_regex |-> NoPattern]

-----------------------------------------------------------------------------
(* The engine called as a library: suggest_mapping, apply_mapping_overrides  *)
(* and build_proposed_clean_df on bounded inputs                             *)

NoCall == [op |-> "init", n |-> 0, use_llm |-> FALSE, learned |-> <<>>,
           llm_map |-> <<>>, mapping_in |-> <<>>, overrides |-> <<>>,
           proposals |-> <<>>, repair |-> "nokey", requests |-> <<>>,
           truth_before |-> <<>>, exported |-> Nothing]

\* the overrides of one call: none, or one header set to a key of truth or to None
OverrideChoices(headers, t) ==
    {<<>>} \cup
    {<<[k |-> headers[i], v |-> c]>> :
        i \in 1..Len(headers), c \in {t[j].k : j \in 1..Len(t)} \cup {None}}

InitWith(files, tables) ==
    /\ schema_file \in {f \in files : ~load_schema_truth(f).raised}
    /\ truth = load_schema_truth(schema_file).data
    /\ raw_df \in {Some(tb) : tb \in tables}
    /\ mapping_result = Nothing
    /\ unmatched_headers = <<>>
    /\ mapper_proposals = <<>>
    /\ proposed_df = Nothing
    /\ issues = <<>>
    /\ final_df = Nothing
    /\ schema_changes = <<>>
    /\ ui = "library"
    /\ call = NoCall

\* suggested, unmatched = suggest_mapping(source_headers, truth, learned_synonyms, use_llm)
SuggestCall(learnedChoices) ==
    /\ call.op = "init"
    /\ \E learned \in learnedChoices :
       \E det \in {DeterministicStages(The(raw_df).columns, truth, learned)} :
       \E use_llm \in BOOLEAN :
       \E llm_map \in (IF use_llm THEN LlmReplies(det.unmatched, truth) ELSE {<<>>}) :
       \E r \in {LlmFallback(det, truth, use_llm, llm_map)} :
                   /\ mapping_result' = Some(r.result)
                   /\ unmatched_headers' = r.unmatched
                   /\ call' = [NoCall EXCEPT !.op = "suggest_mapping", !.use_llm = use_llm,
                                             !.learned = learned, !.llm_map = llm_map]
    /\ UNCHANGED <<schema_file, truth, raw_df, mapper_proposals, proposed_df, issues,
                   final_df, schema_changes, ui>>

\* suggest_mapping with any of the learned synonyms
EngSuggestMapping == SuggestCall(LearnedChoices(truth))

\* suggest_mapping with the learned synonyms app.py passes (merged_synonyms)
EngSuggestMerged == SuggestCall({SchemaSynonyms(truth)})

\* mapped = apply_mapping_overrides(mapping_result, overrides)
EngApplyOverrides ==
    /\ call.op \in {"suggest_mapping", "apply_mapping_overrides"}
    /\ call.n < MaxOverrideCalls
    /\ \E ov \in OverrideChoices(The(raw_df).columns, truth) :
         /\ mapping_result' = Some(apply_mapping_overrides(The(mapping_result), ov))
         /\ call' = [call EXCEPT !.op = "apply_mapping_overrides", !.n = @ + 1,
                                 !.mapping_in = The(mapping_result), !.overrides = ov]
    /\ UNCHANGED <<schema_file, truth, raw_df, unmatched_headers, mapper_proposals,
                   proposed_df, issues, final_df, schema_changes, ui>>

\* the collaborators of one cleaning pass: no key (no reply at all); a key
\* with no field proposals and a cell-repair collaborator that declines, or
\* whose every request fails; or a proposal for every header asked about and
\* a cell repair that suggests
CleanEnvironments(df, mapping) ==
    LET asked == SelectSeq(df.columns, LAMBDA c : ~DictHas(MappedCanon(mapping), c))
        full == [i \in 1..Len(asked) |-> [k |-> asked[i], v |-> Proposal(asked[i], K_notes)]]
    IN  {[proposals |-> <<>>, repair |-> "nokey"],
         [proposals |-> <<>>, repair |-> "declines"],
         [proposals |-> <<>>, repair |-> "fails"],
         [proposals |-> full, repair |-> "suggests"]}

\* proposed_df, issues = build_proposed_clean_df(raw_df, mapping_result, truth, clean_pack, use_llm)
EngBuildClean ==
    /\ call.op = "suggest_mapping"
    /\ \E use_llm \in BOOLEAN :
       \E env \in (IF use_llm THEN CleanEnvironments(The(raw_df), The(mapping_result))
                   ELSE {[proposals |-> <<>>, repair |-> "nokey"]}) :
       \E r \in {build_proposed_clean_df(The(raw_df), The(mapping_result), truth,
                                         use_llm, env.proposals, env.repair)} :
             /\ proposed_df' = Some(r.proposed)
             /\ issues' = r.issues
             /\ call' = [call EXCEPT !.op = "build_proposed_clean_df", !.use_llm = use_llm,
                                     !.mapping_in = The(mapping_result),
                                     !.proposals = env.proposals, !.repair = env.repair,
                                     !.requests = r.requests]
    /\ UNCHANGED <<schema_file, truth, raw_df, mapping_result, unmatched_headers,
                   mapper_proposals, final_df, schema_changes, ui>>

\* the mapper on lists of headers
InitMapper == InitWith(SchemaFiles, HeaderTables)
NextMapper == EngSuggestMapping
SpecMapper == InitMapper /\ [][NextMapper]_vars

\* the mapper on lists of the headers that reach the fuzzy stage, next to one
\* that an earlier stage matches
FuzzyPool == {H_order_id, H_Email_Adr, H_Notes, H_Ref_Num, H_Oder_ID}
FuzzyTables == {Frame(h, <<>>) : h \in DistinctSeqs(FuzzyPool, MaxCols)}
InitFuzzy == InitWith(SchemaFiles, FuzzyTables)
SpecFuzzy == InitFuzzy /\ [][NextMapper]_vars

\* the mapper followed by overrides
InitOverrides == InitWith(SchemaFiles, OverrideTables)
NextOverrides == EngSuggestMapping \/ EngApplyOverrides
SpecOverrides == InitOverrides /\ [][NextOverrides]_vars

\* the mapper followed by the cleaning pass
InitClean == InitWith({Absent, FileA}, DataTables)
NextClean == EngSuggestMerged \/ EngBuildClean
SpecClean == InitClean /\ [][NextClean]_vars

-----------------------------------------------------------------------------
(* validate_and_clean called on one cell, and again on the value it returned *)

V_date_dmy == <<"0","4","/","0","3","/","2","0","2","4">>
V_date_iso == <<"2","0","2","4","-","0","3","-","0","4">>
V_date_late == <<"2","5","/","1","2","/","2","0","2","4">>
V_date_bad == <<"3","1","/","0","2","/","2","0","2","4">>
V_order == <<" ","o","r","d","-","0","0","0","1">>
V_cust == <<"c","u","s","t","-"," ","7">>
V_mail == <<"a"," ","@","b",".","c","o">>
V_phone == <<"9","8","7","6","5"," ","4","3","2","1">>
V_short == <<"1","2","-","3","4">>
V_pin == <<"5","6","0"," ","0","0","1">>
V_pin_dash == <<"5","6","0","-","0","0","1">>
V_sku == <<"a","b","-","1","2","3","4">>
V_pct == <<"1","2",".","5","%">>
V_money == <<RupeeSign,"1",",","2","5","0",".","5","0">>
V_half == <<"2",".","5">>
V_inr == <<"r","s">>
V_gstin == <<"2","9","a","b","c","d","e","1","2","3","4","f","1","z","5">>
V_word == <<" ","P","u","n","e"," ">>

ValidateFields ==
    TextFamilies \cup AmountFamilies \cup PercentFamilies \cup
    {<<"o","r","d","e","r","_","i","d">>, <<"o","r","d","e","r","_","d","a","t","e">>,
     <<"c","u","s","t","o","m","e","r","_","i","d">>,
     <<"c","u","s","t","o","m","e","r","_","n","a","m","e">>,
     <<"e","m","a","i","l">>, <<"p","h","o","n","e">>,
     <<"p","o","s","t","a","l","_","c","o","d","e">>,
     <<"p","r","o","d","u","c","t","_","s","k","u">>,
     <<"q","u","a","n","t","i","t","y">>, <<"c","u","r","r","e","n","c","y">>,
     <<"t","a","x","_","i","d">>, <<"n","o","t","e","s">>}

ValidateCells ==
    {StrCell(x) : x \in {V_date_dmy, V_date_iso, V_date_late, V_date_bad, V_order, V_cust,
                         V_mail, V_phone, V_short, V_pin, V_pin_dash, V_sku, V_pct,
                         V_money, V_half, V_inr, <<RupeeSign>>, V_gstin, V_word}}
    \cup {IntCell(<<"7">>), IntCell(<<"5","6","0","0","0","1">>),
          IntCell(<<"9","8","7","6","5","4","3","2">>),
          FloatCell(<<"2",".","5">>), FloatCell(<<"0",".","1","2","5">>),
          FloatCell(<<"1","2","3","4","5",".","0">>), NaNCell, NoneCell}

NoValidation == [op |-> "init", canonical |-> <<>>, value |-> NoneCell,
                 first |-> Nothing, second |-> Nothing]

InitValidate ==
    /\ schema_file = Absent
    /\ truth = <<>>
    /\ raw_df = Nothing
    /\ mapping_result = Nothing
    /\ unmatched_headers = <<>>
    /\ mapper_proposals = <<>>
    /\ proposed_df = Nothing
    /\ issues = <<>>
    /\ final_df = Nothing
    /\ schema_changes = <<>>
    /\ ui = "library"
    /\ call \in {[NoValidation EXCEPT !.canonical = c, !.value = x] :
                    c \in ValidateFields, x \in ValidateCells}

\* res = validate_and_clean(canonical, value)
ValidateCell ==
    /\ call.op = "init"
    /\ call' = [call EXCEPT !.op = "validate_and_clean",
                            !.first = Some(validate_and_clean(call.canonical, call.value))]
    /\ UNCHANGED <<schema_file, truth, raw_df, mapping_result, unmatched_headers,
                   mapper_proposals, proposed_df, issues, final_df, schema_changes, ui>>

\* validate_and_clean(canonical, res.value) for a result that was valid
ValidateAgain ==
    /\ call.op = "validate_and_clean"
    /\ The(call.first).valid
    /\ call' = [call EXCEPT !.op = "validate_and_clean again",
                            !.second = Some(validate_and_clean(call.canonical,
                                                               The(call.first).value))]
    /\ UNCHANGED <<schema_file, truth, raw_df, mapping_result, unmatched_headers,
                   mapper_proposals, proposed_df, issues, final_df, schema_changes, ui>>

NextValidate == ValidateCell \/ ValidateAgain
SpecValidate == InitValidate /\ [][NextValidate]_vars

-----------------------------------------------------------------------------
(* src/src/llm.py: one request of a collaborator sent through _with_retries, *)
(* attempt by attempt                                                        *)

RetryCallers == {"map_headers_with_llm", "propose_schema_for_headers", "clean_value_with_llm"}

\* the content of a response: an answer of the expected shape, an empty
\* content, or a text that json.loads rejects
ReplyKinds == {"answer", "empty", "malformed"}

\* the most calls of the request that a run follows
MaxCalls == 4

NoRequest == [op |-> "init", caller |-> "", outcomes |-> <<>>, reply |-> "",
              attempts |-> 0, pc |-> "call", result |-> "pending"]

InitRetries ==
    /\ schema_file = Absent
    /\ truth = <<>>
    /\ raw_df = Nothing
    /\ mapping_result = Nothing
    /\ unmatched_headers = <<>>
    /\ mapper_proposals = <<>>
    /\ proposed_df = Nothing
    /\ issues = <<>>
    /\ final_df = Nothing
    /\ schema_changes = <<>>
    /\ ui = "library"
    /\ call \in {[NoRequest EXCEPT !.caller = c, !.outcomes = o, !.reply = r] :
                    c \in RetryCallers, o \in [1..MaxCalls -> BOOLEAN], r \in ReplyKinds}

\* the variables a request leaves alone
RetryUnchanged ==
    UNCHANGED <<schema_file, truth, raw_df, mapping_result, unmatched_headers,
                mapper_proposals, proposed_df, issues, final_df, schema_changes, ui>>

\* RetryAttempt that retries after every failure, whatever the attempt
RetryAttemptUnbounded ==
    /\ call.pc = "call"
    /\ call.attempts < MaxCalls
    /\ call' = [call EXCEPT !.op = "attempt",
                            !.attempts = @ + 1,
                            !.pc = IF call.outcomes[call.attempts + 1] THEN "returned"
                                   ELSE "sleep"]
    /\ UNCHANGED <<schema_file, truth, raw_df, mapping_result, unmatched_headers,
                   mapper_proposals, proposed_df, issues, final_df, schema_changes, ui>>

\* lines 34-40: func() is called; its response is returned, or its exception
\* is raised again when attempt >= max_retries, or the loop goes to sleep
RetryAttempt ==
    /\ call.pc = "call"
    /\ call.attempts < MaxCalls
    /\ call' = [call EXCEPT !.op = "attempt",
                            !.attempts = @ + 1,
                            !.pc = IF call.outcomes[call.attempts + 1] THEN "returned"
                                   ELSE IF call.attempts >= MaxRetries THEN "raised"
                                   ELSE "sleep"]
    /\ RetryUnchanged

\* line 41: time.sleep(delay_seconds), then the next attempt
RetrySleep ==
    /\ call.pc = "sleep"
    /\ call' = [call EXCEPT !.op = "sleep", !.pc = "call"]
    /\ RetryUnchanged

\* the caller reads the response (llm.py:64-67, 101-115, 140): a result, or
\* no result when the content is empty or json.loads raises inside the try
CallerReads ==
    /\ call.pc = "returned"
    /\ call' = [call EXCEPT !.op = "read",
                            !.pc = "done",
                            !.result = IF call.reply = "answer" THEN "result"
                                       ELSE "no result"]
    /\ RetryUnchanged

\* the caller's except branch (llm.py:68-70, 116-118, 141-143): no result
CallerCatches ==
    /\ call.pc = "raised"
    /\ call' = [call EXCEPT !.op = "except", !.pc = "done", !.result = "no result"]
    /\ RetryUnchanged

NextRetries == RetryAttempt \/ RetrySleep \/ CallerReads \/ CallerCatches

\* the interpreter keeps running the call: a step that can be taken is taken
SpecRetries == InitRetries /\ [][NextRetries]_vars /\ WF_vars(NextRetries)

-----------------------------------------------------------------------------
(* src/app.py: one Streamlit session.  Every action is one run of the script: *)
(* the schema is loaded (lines 102-109), then the selected step runs, with    *)
(* the button that triggered the run (if any) reading True.                  *)

\* the CSV files uploaded in the session
SessionTables ==
    {read_csv_fallback(<<H_Notes, H_E_Mail>>, <<<<T_email, T_spaced>>>>)}

\* what TRUTH_PATH holds when the session starts
SessionFiles == {Absent, Malformed, FileA}

\* the replies of map_headers_with_llm(unmatched, truth) in the session: {}
\* (no key, or the request failed) or "email" for every header asked about
SessionLlmReplies(unmatched) ==
    {<<>>, [i \in 1..Len(unmatched) |-> [k |-> unmatched[i], v |-> K_email]]}

\* the names the field-discovery collaborator proposes (one of them empty)
ProposalNames == {EmptyStr, K_notes, K_email}

\* the replies of propose_schema_for_headers(headers, samples): {} without a
\* key, without headers or after a failure; otherwise an entry for every header
RECURSIVE FullProposalReplies(_)
FullProposalReplies(headers) ==
    IF headers = <<>> THEN {<<>>}
    ELSE {<<[k |-> Head(headers), v |-> Proposal(Head(headers), n)]>> \o r :
             n \in ProposalNames, r \in FullProposalReplies(Tail(headers))}
ProposalReplies(headers) == {<<>>} \cup FullProposalReplies(headers)

\* lines 162-187 of the Mapper step: suggest_mapping with the schema's own
\* synonyms and use_llm = True, then the proposals for what stayed unmatched
MapperOutcomes(df, t) ==
    LET det == DeterministicStages(df.columns, t, SchemaSynonyms(t))
    IN  UNION {LET r == LlmFallback(det, t, TRUE, m)
               IN  {[mapping |-> r.result, unmatched |-> r.unmatched, proposals |-> pr] :
                       pr \in ProposalReplies(r.unmatched)} :
               m \in SessionLlmReplies(det.unmatched)}

\* override_cols of lines 191-216 when every selectbox is left at its default
DefaultOverrides(headers, suggested) ==
    [i \in 1..Len(headers) |->
        [k |-> headers[i],
         v |-> IF DictHas(suggested, headers[i])
               THEN DictGet(suggested, headers[i]).canonical ELSE None]]

\* override_cols: an entry for every source header; the user changes at most
\* one selectbox, to the first key of truth or to "Ignore" (None)
OverrideCols(headers, suggested, t) ==
    {DefaultOverrides(headers, suggested)} \cup
    {DictPut(DefaultOverrides(headers, suggested), headers[i], c) :
        i \in 1..Len(headers), c \in {t[j].k : j \in 1..Min(1, Len(t))} \cup {None}}

\* the entry written for an accepted proposal (lines 238-244)
FieldFromProposal(canon, meta) ==
    FieldDef(canon, canon, meta.description, meta.synonyms, meta.header_regex)

\* AddHeader that writes the proposal's entry whether or not the name exists
AddHeaderOverwrite(acc, p) ==
    LET canon == p.v.header
    IN  IF ~Truthy(canon) THEN acc
        ELSE [data |-> DictPut(acc.data, canon, FieldFromProposal(canon, p.v).v),
              added |-> Append(acc.added,
                               [action |-> "add_header", canonical |-> canon, source |-> p.k])]

\* one iteration of the loop of lines 233-245 (and 344-357)
AddHeader(acc, p) ==
    LET canon == p.v.header
    IN  IF ~Truthy(canon) THEN acc
        ELSE IF ~DictHas(acc.data, canon)
        THEN [data |-> Append(acc.data, FieldFromProposal(canon, p.v)),
              added |-> Append(acc.added,
                               [action |-> "add_header", canonical |-> canon, source |-> p.k])]
        ELSE acc

\* the loop over the batch of proposals, from truth_data = load_json_file(TRUTH_PATH, {})
RECURSIVE AddHeaders(_, _)
AddHeaders(acc, batch) ==
    IF batch = <<>> THEN acc ELSE AddHeaders(AddHeader(acc, Head(batch)), Tail(batch))

\* what the accept button leaves in TRUTH_PATH: saved only when something was added
AcceptedFile(file, r) == IF r.added # <<>> THEN JsonFile(r.data) ELSE file

\* proposals of line 335: the issues that carry a proposal
IssueProposals(iss) ==
    LET kept == SelectSeq(iss, LAMBDA i : i.reason = "New header proposal" /\ i.proposal # Nothing)
    IN  [i \in 1..Len(kept) |-> [k |-> kept[i].column, v |-> The(kept[i].proposal)]]

\* final_df.at[row_idx, col] = sugg for every issue that has a suggestion (lines 319-330)
RECURSIVE ApplySuggestions(_, _)
ApplySuggestions(df, iss) ==
    IF iss = <<>> THEN df
    ELSE LET i == Head(iss)
             hit == i.row_index # Nothing /\ InSeq(i.column, df.columns) /\ i.suggestion # Nothing
         IN  ApplySuggestions(
                 IF hit
                 THEN [df EXCEPT !.rows[The(i.row_index) + 1][ColumnIndex(df, i.column)] =
                                      StrCell(The(i.suggestion))]
                 ELSE df,
                 Tail(iss))

\* the number of script runs of a session
MaxRuns == 5

Init ==
    /\ schema_file \in SessionFiles
    /\ truth = <<>>
    /\ raw_df = Nothing
    /\ mapping_result = Nothing
    /\ unmatched_headers = <<>>
    /\ mapper_proposals = <<>>
    /\ proposed_df = Nothing
    /\ issues = <<>>
    /\ final_df = Nothing
    /\ schema_changes = <<>>
    /\ ui = "session"
    /\ call = NoCall

\* lines 103-109: load_schema_truth raises, the run ends at st.stop()
SchemaLoadFails ==
    /\ ui = "session"
    /\ load_schema_truth(schema_file).raised
    /\ ui' = "stopped"
    /\ UNCHANGED <<schema_file, truth, raw_df, mapping_result, unmatched_headers,
                   mapper_proposals, proposed_df, issues, final_df, schema_changes, call>>

\* a run gets past line 109
SchemaLoaded ==
    /\ ui = "session"
    /\ call.n < MaxRuns
    /\ ~load_schema_truth(schema_file).raised

\* Step 1 with a file in the uploader (lines 126-141)
StepUpload ==
    /\ SchemaLoaded
    /\ truth' = load_schema_truth(schema_file).data
    /\ \E df \in SessionTables : raw_df' = Some(df)
    /\ mapping_result' = Nothing
    /\ unmatched_headers' = <<>>
    /\ proposed_df' = Nothing
    /\ issues' = <<>>
    /\ final_df' = Nothing
    /\ schema_changes' = <<>>
    /\ call' = [NoCall EXCEPT !.op = "Upload", !.n = call.n + 1]
    /\ UNCHANGED <<schema_file, mapper_proposals, ui>>

\* Step 2 with no button pressed (lines 151-187); also the run that st.rerun()
\* of line 250 starts
StepMapper ==
    /\ ui \in {"session", "rerun"}
    /\ call.n < MaxRuns
    /\ ~load_schema_truth(schema_file).raised
    /\ raw_df # Nothing
    /\ \E t \in {load_schema_truth(schema_file).data} :
       \E o \in MapperOutcomes(The(raw_df), t) :
          /\ truth' = t
          /\ mapping_result' = Some(o.mapping)
          /\ unmatched_headers' = o.unmatched
          /\ mapper_proposals' = o.proposals
    /\ ui' = "session"
    /\ call' = [NoCall EXCEPT !.op = "Mapper", !.n = call.n + 1]
    /\ UNCHANGED <<schema_file, raw_df, proposed_df, issues, final_df, schema_changes>>

\* Step 2 with "Apply Mapping Overrides" pressed (lines 151-222)
ApplyMappingOverrides ==
    /\ SchemaLoaded
    /\ raw_df # Nothing
    /\ \E t \in {load_schema_truth(schema_file).data} :
       \E o \in MapperOutcomes(The(raw_df), t) :
       \E ov \in OverrideCols(The(raw_df).columns, o.mapping, t) :
          /\ truth' = t
          /\ mapping_result' = Some(apply_mapping_overrides(o.mapping, ov))
          /\ unmatched_headers' = o.unmatched
          /\ mapper_proposals' = o.proposals
          /\ call' = [NoCall EXCEPT !.op = "Apply Mapping Overrides", !.n = call.n + 1,
                                    !.mapping_in = o.mapping, !.overrides = ov]
    /\ UNCHANGED <<schema_file, raw_df, proposed_df, issues, final_df, schema_changes, ui>>

\* Step 2 with "Accept all proposals to schema truth (Mapper)" pressed (lines
\* 151-250); st.rerun() when something was added
AcceptProposalsMapper ==
    /\ SchemaLoaded
    /\ raw_df # Nothing
    /\ \E t \in {load_schema_truth(schema_file).data} :
       \E o \in MapperOutcomes(The(raw_df), t) :
       \E r \in {AddHeaders([data |-> load_json_file(schema_file, <<>>).data, added |-> <<>>],
                            o.proposals)} :
          /\ o.proposals # <<>>
          /\ truth' = t
          /\ mapping_result' = Some(o.mapping)
          /\ unmatched_headers' = o.unmatched
          /\ mapper_proposals' = o.proposals
          /\ schema_file' = AcceptedFile(schema_file, r)
          /\ schema_changes' = schema_changes \o r.added
          /\ ui' = IF r.added # <<>> THEN "rerun" ELSE "session"
          /\ call' = [NoCall EXCEPT !.op = "Accept proposals (Mapper)", !.n = call.n + 1,
                                    !.proposals = o.proposals,
                                    !.truth_before = load_json_file(schema_file, <<>>).data]
    /\ UNCHANGED <<raw_df, proposed_df, issues, final_df>>

\* Step 3 (lines 266-286)
StepCleanValidate ==
    /\ SchemaLoaded
    /\ raw_df # Nothing
    /\ mapping_result # Nothing /\ The(mapping_result) # <<>>
    /\ \E t \in {load_schema_truth(schema_file).data} :
       \E pr \in ProposalReplies(SelectSeq(The(raw_df).columns,
                     LAMBDA c : ~DictHas(MappedCanon(The(mapping_result)), c))) :
       \E repair \in (IF pr = <<>> THEN {"nokey", "declines"} ELSE {"declines"}) :
       \E r \in {build_proposed_clean_df(The(raw_df), The(mapping_result), t, TRUE, pr, repair)} :
          /\ truth' = t
          /\ proposed_df' = Some(r.proposed)
          /\ issues' = r.issues
          /\ call' = [NoCall EXCEPT !.op = "Clean/Validate", !.n = call.n + 1, !.use_llm = TRUE,
                                    !.mapping_in = The(mapping_result),
                                    !.proposals = pr, !.repair = repair,
                                    !.requests = r.requests]
    /\ UNCHANGED <<schema_file, raw_df, mapping_result, unmatched_headers, mapper_proposals,
                   final_df, schema_changes, ui>>

\* Step 4 with no button pressed (lines 302-311)
StepTargetedFixes ==
    /\ SchemaLoaded
    /\ proposed_df # Nothing
    /\ truth' = load_schema_truth(schema_file).data
    /\ final_df' = IF issues = <<>> THEN proposed_df ELSE final_df
    /\ call' = [NoCall EXCEPT !.op = "Targeted Fixes", !.n = call.n + 1]
    /\ UNCHANGED <<schema_file, raw_df, mapping_result, unmatched_headers, mapper_proposals,
                   proposed_df, issues, schema_changes, ui>>

\* Step 4 with "Apply all suggested fixes" pressed (lines 312-332)
ApplyAllSuggestedFixes ==
    /\ SchemaLoaded
    /\ proposed_df # Nothing
    /\ issues # <<>>
    /\ truth' = load_schema_truth(schema_file).data
    /\ final_df' = Some(ApplySuggestions(The(proposed_df), issues))
    /\ call' = [NoCall EXCEPT !.op = "Apply all suggested fixes", !.n = call.n + 1]
    /\ UNCHANGED <<schema_file, raw_df, mapping_result, unmatched_headers, mapper_proposals,
                   proposed_df, issues, schema_changes, ui>>

\* Step 4 with "Accept all proposals to schema truth" pressed (lines 302-361)
AcceptProposalsFixes ==
    /\ SchemaLoaded
    /\ proposed_df # Nothing
    /\ IssueProposals(issues) # <<>>
    /\ \E r \in {AddHeaders([data |-> load_json_file(schema_file, <<>>).data, added |-> <<>>],
                            IssueProposals(issues))} :
          /\ schema_file' = AcceptedFile(schema_file, r)
          /\ schema_changes' = schema_changes \o r.added
    /\ truth' = load_schema_truth(schema_file).data
    /\ call' = [NoCall EXCEPT !.op = "Accept proposals (Targeted Fixes)", !.n = call.n + 1,
                              !.proposals = IssueProposals(issues),
                              !.truth_before = load_json_file(schema_file, <<>>).data]
    /\ UNCHANGED <<raw_df, mapping_result, unmatched_headers, mapper_proposals,
                   proposed_df, issues, final_df, ui>>

\* Step 5 (lines 432-445): the table shown as "After (Final)" and offered by
\* the download button
StepExport ==
    /\ SchemaLoaded
    /\ ~(proposed_df = Nothing /\ final_df = Nothing)
    /\ truth' = load_schema_truth(schema_file).data
    /\ call' = [NoCall EXCEPT !.op = "Export", !.n = call.n + 1,
                              !.exported = IF final_df # Nothing THEN final_df ELSE proposed_df]
    /\ UNCHANGED <<schema_file, raw_df, mapping_result, unmatched_headers, mapper_proposals,
                   proposed_df, issues, final_df, schema_changes, ui>>

Next ==
    \/ SchemaLoadFails
    \/ StepUpload
    \/ StepMapper
    \/ ApplyMappingOverrides
    \/ AcceptProposalsMapper
    \/ StepCleanValidate
    \/ StepTargetedFixes
    \/ ApplyAllSuggestedFixes
    \/ AcceptProposalsFixes
    \/ StepExport

Spec == Init /\ [][Next]_vars

\* the session once a file has been uploaded and the Mapper step has run
\* (lines 126-187); the runs are counted from here
InitExport ==
    /\ schema_file \in {f \in SessionFiles : ~load_schema_truth(f).raised}
    /\ truth = load_schema_truth(schema_file).data
    /\ \E df \in SessionTables :
       \E o \in MapperOutcomes(df, truth) :
          /\ raw_df = Some(df)
          /\ mapping_result = Some(o.mapping)
          /\ unmatched_headers = o.unmatched
          /\ mapper_proposals = o.proposals
    /\ proposed_df = Nothing
    /\ issues = <<>>
    /\ final_df = Nothing
    /\ schema_changes = <<>>
    /\ ui = "session"
    /\ call = [NoCall EXCEPT !.op = "Mapper"]

\* the steps of the sidebar, without the buttons that write the schema file
NextExport ==
    \/ StepUpload
    \/ StepMapper
    \/ ApplyMappingOverrides
    \/ StepCleanValidate
    \/ StepTargetedFixes
    \/ ApplyAllSuggestedFixes
    \/ StepExport

SpecExport == InitExport /\ [][NextExport]_vars

-----------------------------------------------------------------------------
(* Claims about the mapper *)

SrcHeaders == The(raw_df).columns
Mapping == The(mapping_result)
TruthKeys == {truth[i].k : i \in 1..Len(truth)}

\* the fields whose name has the compact key of header h
SameKeyFields(h) == {i \in 1..Len(truth) : _normalize_header(truth[i].k) = _normalize_header(h)}
\* the fields whose compiled pattern matches the raw header h from its start
PatternFields(h) == {i \in 1..Len(truth) : ReMatch(truth[i].v._header_re, h)}
\* the fields that own, in _syn_lc or in the learned synonyms of the call, a
\* synonym with the compact key of h
SynonymFields(h) ==
    {i \in 1..Len(truth) :
        \E s \in {truth[i].v._syn_lc[j] : j \in 1..Len(truth[i].v._syn_lc)} \cup
                 {LearnedFor(call.learned, truth[i].k)[j] :
                      j \in 1..Len(LearnedFor(call.learned, truth[i].k))} :
            _normalize_header(s) = _normalize_header(h)}
FirstOf(S) == CHOOSE i \in S : \A j \in S : i <= j

\* C1: after suggest_mapping, a header whose compact key equals the compact
\* key of a canonical field name is recorded with that field (the first such
\* field in declaration order), confidence 1.00 and method canonical,
\* whatever the patterns and synonyms of the schema.
C1_CanonicalKeyWins ==
    call.op = "suggest_mapping" =>
        \A n \in 1..Len(SrcHeaders) :
            LET h == SrcHeaders[n] IN
            SameKeyFields(h) # {} =>
                /\ DictHas(Mapping, h)
                /\ DictGet(Mapping, h) =
                       Rec(truth[FirstOf(SameKeyFields(h))].k, ConfCanonical, "canonical")

\* C1 witness: a header with the compact key of a field name that the pattern
\* of another field matches, mapped by suggest_mapping
C1_Witness ==
    /\ call.op = "suggest_mapping"
    /\ \E n \in 1..Len(SrcHeaders) :
         LET h == SrcHeaders[n] IN
         /\ SameKeyFields(h) # {}
         /\ \E j \in PatternFields(h) : j \notin SameKeyFields(h)
         /\ DictHas(Mapping, h) /\ DictGet(Mapping, h).method = "canonical"

\* C2 as stated: every record whose canonical field is None has method
\* unmapped and confidence 0, after suggest_mapping and any overrides.
C2_NoneIsUnmapped ==
    IsSome(mapping_result) =>
        \A i \in 1..Len(Mapping) :
            Mapping[i].v.canonical = None =>
                Mapping[i].v.method = "unmapped" /\ Mapping[i].v.confidence = ConfUnmapped

\* C6: after suggest_mapping every source header is in exactly one place: in
\* the mapping with a canonical field of the schema, or in the unmatched
\* list; without a collaborator reply every header that no deterministic
\* stage matched is in the unmatched list.
C6_NoHeaderLost ==
    call.op = "suggest_mapping" =>
        \A n \in 1..Len(SrcHeaders) :
            LET h == SrcHeaders[n]
                mapped == DictHas(Mapping, h) /\ DictGet(Mapping, h).canonical \in TruthKeys
                listed == InSeq(h, unmatched_headers)
                noStage == /\ SameKeyFields(h) = {}
                           /\ PatternFields(h) = {}
                           /\ SynonymFields(h) = {}
                           /\ ~FuzzyAccepts(FuzzyStage(_normalize_header(h), truth))
            IN  /\ mapped # listed
                /\ (~call.use_llm \/ call.llm_map = <<>>) => (listed \/ ~noStage)

\* C6 witness: a call with the fallback enabled after which one header was
\* resolved by the collaborator and another stays in the unmatched list
C6_Witness ==
    /\ call.op = "suggest_mapping" /\ call.use_llm
    /\ \E n \in 1..Len(SrcHeaders) :
         DictHas(Mapping, SrcHeaders[n]) /\ DictGet(Mapping, SrcHeaders[n]).method = "llm"
    /\ \E n \in 1..Len(SrcHeaders) :
         /\ InSeq(SrcHeaders[n], unmatched_headers)
         /\ DictGet(Mapping, SrcHeaders[n]).method = "unmapped"

\* C7: for a header whose compact key is no field name's, the stages fire in
\* the order pattern, exact synonym, fuzzy: a pattern hit gives the first
\* matching field in declaration order with 0.90 / regex even if the key is a
\* synonym of another field; else a synonym hit gives 0.95 / synonym; only
\* when neither fires can the record be a fuzzy one or the header unmatched.
C7_CascadeOrder ==
    call.op = "suggest_mapping" =>
        \A n \in 1..Len(SrcHeaders) :
            LET h == SrcHeaders[n] IN
            SameKeyFields(h) = {} =>
                IF PatternFields(h) # {}
                THEN DictHas(Mapping, h) /\
                     DictGet(Mapping, h) = Rec(truth[FirstOf(PatternFields(h))].k, ConfRegex, "regex")
                ELSE IF SynonymFields(h) # {}
                THEN /\ DictHas(Mapping, h)
                     /\ DictGet(Mapping, h).confidence = ConfSynonym
                     /\ DictGet(Mapping, h).method = "synonym"
                     /\ \E i \in SynonymFields(h) : DictGet(Mapping, h).canonical = truth[i].k
                ELSE DictHas(Mapping, h) => DictGet(Mapping, h).method \in {"fuzzy", "llm", "unmapped"}

\* C7 witness: a header matched by a pattern whose compact key is also an
\* exact synonym of a different field, next to one decided by the fuzzy stage
\* or left unmatched
C7_Witness ==
    /\ call.op = "suggest_mapping"
    /\ \E n \in 1..Len(SrcHeaders) :
         LET h == SrcHeaders[n] IN
         /\ SameKeyFields(h) = {} /\ PatternFields(h) # {}
         /\ \E i \in SynonymFields(h) : i # FirstOf(PatternFields(h))
         /\ DictGet(Mapping, h).method = "regex"
    /\ \E n \in 1..Len(SrcHeaders) :
         LET h == SrcHeaders[n] IN
         /\ SameKeyFields(h) = {} /\ PatternFields(h) = {} /\ SynonymFields(h) = {}
         /\ (DictHas(Mapping, h) => DictGet(Mapping, h).method = "fuzzy")

\* C8: apply_mapping_overrides returns, for every header of the input
\* mapping, (value, 1.00, override) when overrides holds a value that differs
\* from the current canonical field, and the input record otherwise.
C8_OverrideRecords ==
    call.op = "apply_mapping_overrides" =>
        /\ Len(Mapping) = Len(call.mapping_in)
        /\ \A i \in 1..Len(call.mapping_in) :
             LET e == call.mapping_in[i]
                 differs == DictHas(call.overrides, e.k) /\
                            DictGet(call.overrides, e.k) # e.v.canonical
             IN  /\ Mapping[i].k = e.k
                 /\ Mapping[i].v = IF differs
                                   THEN Rec(DictGet(call.overrides, e.k), ConfOverride, "override")
                                   ELSE e.v

\* C8 witness: a call whose overrides change one header (to another field or
\* to None) and a call whose entry equals the current field of a record that
\* is no override
C8_Witness ==
    /\ call.op = "apply_mapping_overrides"
    /\ \E i \in 1..Len(call.mapping_in) :
         LET e == call.mapping_in[i] IN
         /\ DictHas(call.overrides, e.k)
         /\ DictGet(call.overrides, e.k) = e.v.canonical
         /\ e.v.method \in {"regex", "synonym", "fuzzy", "llm"}
         /\ Mapping[i].v = e.v
    /\ \E i \in 1..Len(call.mapping_in) :
         /\ call.mapping_in[i].v.method = "override"
         /\ call.mapping_in[i].v.canonical = None

-----------------------------------------------------------------------------
(* Claims about the cleaning pass *)

RawDf == The(raw_df)
Proposed == The(proposed_df)

\* the source columns (positions in raw_df) that the mapping of the call maps to canon
SourcesOf(canon) ==
    {n \in 1..Len(RawDf.columns) :
        /\ DictHas(call.mapping_in, RawDf.columns[n])
        /\ DictGet(call.mapping_in, RawDf.columns[n]).canonical = canon}

\* what the validation loop leaves in the cleaned table for an input cell
CleanedValue(canon, val) ==
    IF IsNullCell(val) THEN val ELSE validate_and_clean(canon, val).value

\* the issues of the issue list with this row index and column
CellIssues(idx, col) ==
    {i \in 1..Len(issues) : issues[i].row_index = Some(idx) /\ issues[i].column = col}

\* C3 as stated: when two or more source columns are mapped to one canonical
\* field, the cleaned column holds the (cleaned) values of the one that comes
\* first in the column order of the raw table.
C3_FirstColumnWins ==
    call.op = "build_proposed_clean_df" =>
        \A c \in 1..Len(Proposed.columns) :
            Cardinality(SourcesOf(Proposed.columns[c])) >= 2 =>
                \A r \in 1..Len(Proposed.rows) :
                    Proposed.rows[r][c] =
                        CleanedValue(Proposed.columns[c],
                                     RawDf.rows[r][FirstOf(SourcesOf(Proposed.columns[c]))])

\* C4 as stated: every canonical field to which no source column is mapped
\* has exactly one issue "Missing column (unmapped)" without a row index.
C4_MissingColumnIssue ==
    call.op = "build_proposed_clean_df" =>
        \A j \in 1..Len(truth) :
            SourcesOf(truth[j].k) = {} =>
                Cardinality({i \in 1..Len(issues) :
                                /\ issues[i].reason = "Missing column (unmapped)"
                                /\ issues[i].column = truth[j].k
                                /\ issues[i].row_index = Nothing}) = 1

\* the reshaped table before validation, and its cell at row r, column c
InputFrame ==
    MappedFrame(RawDf, OrderedPairs(SourceToCanon(RawDf, call.mapping_in), <<>>),
                DictKeys(truth))
InputCell(r, c) == InputFrame.rows[r][c]

\* C10: for every cell of the cleaned table the issue list holds exactly one
\* issue with its row index and column when the cell is empty or fails its
\* validator, and none when the validator accepts it.
C10_OneIssuePerBadCell ==
    call.op = "build_proposed_clean_df" =>
        LET input == InputFrame
        IN  \A r \in 1..Len(Proposed.rows) : \A c \in 1..Len(Proposed.columns) :
                LET col == Proposed.columns[c]
                    val == input.rows[r][c]
                    bad == IsNullCell(val) \/ ~validate_and_clean(col, val).valid
                IN  Cardinality(CellIssues(r - 1, col)) = IF bad THEN 1 ELSE 0

\* C10 witness: a cleaned table with an accepted cell, an empty cell and a
\* non-empty cell that its validator rejects
C10_Witness ==
    /\ call.op = "build_proposed_clean_df"
    /\ \E r \in 1..Len(Proposed.rows) : \E c1, c2 \in 1..Len(Proposed.columns) :
         /\ ~IsNullCell(InputCell(r, c1))
         /\ validate_and_clean(Proposed.columns[c1], InputCell(r, c1)).valid
         /\ CellIssues(r - 1, Proposed.columns[c1]) = {}
         /\ ~IsNullCell(InputCell(r, c2))
         /\ ~validate_and_clean(Proposed.columns[c2], InputCell(r, c2)).valid
         /\ Cardinality(CellIssues(r - 1, Proposed.columns[c2])) = 1
    /\ \E r \in 1..Len(Proposed.rows) : \E c \in 1..Len(Proposed.columns) :
         IsNullCell(InputCell(r, c)) /\ Cardinality(CellIssues(r - 1, Proposed.columns[c])) = 1

-----------------------------------------------------------------------------
(* Claims about the session *)

\* C5 as stated: while the schema definition is absent, no header mapping and
\* no cleaning pass has run in the session (neither a mapping nor a cleaned
\* table exists).
C5_AbsentSchemaAborts ==
    schema_file.state = "absent" => (mapping_result = Nothing /\ proposed_df = Nothing)

AcceptOps == {"Accept proposals (Mapper)", "Accept proposals (Targeted Fixes)"}

\* the fields stored in a schema file (none when the file is absent)
StoredFields(file) == IF file.state = "ok" THEN file.data ELSE <<>>

\* proposal j of the batch has a non-empty name that is neither in the stored
\* schema nor proposed earlier in the batch
FreshIn(batch, old, j) ==
    /\ Truthy(batch[j].v.header)
    /\ \A i \in 1..Len(old) : old[i].k # batch[j].v.header
    /\ \A i \in 1..(j - 1) : batch[i].v.header # batch[j].v.header

\* the schema entry that proposal p describes
EntryOf(p) ==
    [k |-> p.v.header,
     v |-> [header |-> p.v.header, description |-> p.v.description,
            synonyms |-> p.v.synonyms, header_regex |-> p.v.header_regex]]

\* C9: every "accept proposals" run (Mapper or Targeted Fixes) leaves each
\* stored field unchanged at its position, and appends, in batch order, exactly
\* the proposals with a non-empty name that is neither stored already nor
\* proposed earlier in the batch.
C9_AcceptAppendsOnly ==
    [][call'.op \in AcceptOps =>
         LET old == StoredFields(schema_file)
             new == StoredFields(schema_file')
             batch == call'.proposals
             fresh == {j \in 1..Len(batch) : FreshIn(batch, old, j)}
         IN  /\ Len(new) = Len(old) + Cardinality(fresh)
             /\ \A i \in 1..Len(old) : new[i] = old[i]
             /\ \A j \in 1..Len(batch) :
                   (j \in fresh) <=>
                       (\E i \in (Len(old) + 1)..Len(new) : new[i] = EntryOf(batch[j]))
             /\ \A j1, j2 \in fresh :
                   j1 < j2 =>
                       \E i1, i2 \in (Len(old) + 1)..Len(new) :
                           i1 < i2 /\ new[i1] = EntryOf(batch[j1]) /\ new[i2] = EntryOf(batch[j2])
    ]_vars

\* C9 witness: an accept run whose batch names the same new field twice; the
\* stored schema grew by the first of the two only
C9_Witness ==
    /\ call.op \in AcceptOps
    /\ Len(call.proposals) = 2
    /\ call.proposals[1].v.header = call.proposals[2].v.header
    /\ FreshIn(call.proposals, call.truth_before, 1)
    /\ StoredFields(schema_file) = Append(call.truth_before, EntryOf(call.proposals[1]))

-----------------------------------------------------------------------------
(* Claims about the validators *)

\* C11: validate_and_clean is idempotent on its valid output for every field
\* family, order_date included: validating the value of a valid result again
\* gives a valid result with the same value.
C11_IdempotentOnValid ==
    call.op = "validate_and_clean again" =>
        /\ The(call.second).valid
        /\ The(call.second).value = The(call.first).value

\* C17 as stated: for every non-empty value of any type (str, int or float)
\* the phone validator rejects a value that contains "@", and otherwise
\* accepts it exactly when at least 7 digits remain after every character
\* outside [0-9+] is removed.
C17_PhoneRuleAnyType ==
    (/\ call.op = "validate_and_clean"
     /\ call.canonical = <<"p","h","o","n","e">>
     /\ ~IsNullCell(call.value))
    => (The(call.first).valid <=>
            /\ ~InSeq("@", call.value.v)
            /\ Len(DigitsOnly(PhoneClean(call.value.v))) >= MinPhoneDigits)

-----------------------------------------------------------------------------
(* Claims about suggestions and the cell-repair collaborator *)

\* the email addresses that the helper columns hold in row idx of the raw table
HelperEmails(idx) ==
    {HelperText(RawDf.rows[idx + 1][c]) :
        c \in {n \in 1..Len(RawDf.columns) :
                  /\ InSeq(RawDf.columns[n], HelperCols(RawDf))
                  /\ EmailFullMatch(HelperText(RawDf.rows[idx + 1][n]))}}

\* C12 as stated: when the phone cell of a row is empty and a helper column
\* of that row holds an email address, the "Null or empty" issue of the phone
\* cell carries that email address as its suggestion.
C12_EmailSuggestedForEmptyPhone ==
    call.op = "build_proposed_clean_df" =>
        \A i \in 1..Len(issues) :
            (/\ issues[i].column = K_phone
             /\ issues[i].reason = "Null or empty"
             /\ issues[i].row_index # Nothing
             /\ HelperEmails(The(issues[i].row_index)) # {})
            => issues[i].suggestion \in {Some(e) : e \in HelperEmails(The(issues[i].row_index))}

\* C13 as stated: in a cleaning pass with external suggestion enabled the
\* cells needing repair go to the cell-repair collaborator in one batch, so
\* at most one request is sent in the pass, and no cell is sent more than
\* once, retries of a failed request included.
C13_OneBatchNoCellTwice ==
    (call.op = "build_proposed_clean_df" /\ call.use_llm) =>
        /\ Len(call.requests) <= 1
        /\ \A i, j \in 1..Len(call.requests) :
               (/\ call.requests[i].row_index = call.requests[j].row_index
                /\ call.requests[i].column = call.requests[j].column) => i = j

\* what the cross-field extraction finds for the cell of row idx of column col
CrossFieldValue(idx, col) ==
    IF col = <<"e","m","a","i","l">>
    THEN _extract_email_from_row(RawRow(RawDf, idx), HelperCols(RawDf))
    ELSE IF col = <<"p","h","o","n","e">>
    THEN _extract_phone_from_row(RawRow(RawDf, idx), HelperCols(RawDf))
    ELSE None

\* C18 as stated: with external suggestion enabled, for a non-empty cell that
\* fails its validator without a validator suggestion, the cell-repair
\* collaborator is consulted exactly when the cross-field extraction (tried
\* for email and phone only) yielded nothing, email and phone cells included.
C18_CollaboratorAfterExtraction ==
    (call.op = "build_proposed_clean_df" /\ call.use_llm /\ call.repair # "nokey") =>
        \A i \in 1..Len(issues) :
            (/\ issues[i].row_index # Nothing
             /\ ~IsNullCell(issues[i].value)
             /\ validate_and_clean(issues[i].column, issues[i].value).suggestion = Nothing)
            => ((\E q \in 1..Len(call.requests) :
                    /\ call.requests[q].row_index = The(issues[i].row_index)
                    /\ call.requests[q].column = issues[i].column)
                <=> ~Truthy(CrossFieldValue(The(issues[i].row_index), issues[i].column)))

-----------------------------------------------------------------------------
(* Claims about the derived views of the session *)

\* C14 as stated: whenever a run changes the raw table or the stored schema
\* (an upload, or proposals accepted from the Mapper step or the Targeted
\* Fixes step), the session is left without a mapping, proposed table, issue
\* list or final table computed before the change.  The Mapper step's accept
\* ends in a rerun that rebuilds the mapping, so for it the three other views
\* must be empty when the rerun has finished.
C14_ViewsResetOnChange ==
    [][/\ ((schema_file' # schema_file \/ raw_df' # raw_df) /\ ui' = "session") =>
            (/\ mapping_result' = Nothing
             /\ proposed_df' = Nothing
             /\ issues' = <<>>
             /\ final_df' = Nothing)
       /\ (ui = "rerun" /\ ui' = "session") =>
            (/\ proposed_df' = Nothing
             /\ issues' = <<>>
             /\ final_df' = Nothing)]_vars

-----------------------------------------------------------------------------
(* Claims about methods and confidences *)

MethodConfidencePairs ==
    {<<"canonical", ConfCanonical>>, <<"regex", ConfRegex>>, <<"synonym", ConfSynonym>>,
     <<"fuzzy", ConfFuzzy>>, <<"llm", ConfLlm>>, <<"override", ConfOverride>>,
     <<"unmapped", ConfUnmapped>>}

\* C15: after suggest_mapping and any number of apply_mapping_overrides calls
\* the (method, confidence) of every record is one of (canonical, 1.00),
\* (regex, 0.90), (synonym, 0.95), (fuzzy, 0.82), (llm, 0.70),
\* (override, 1.00), (unmapped, 0).
C15_MethodConfidence ==
    mapping_result # Nothing =>
        \A i \in 1..Len(Mapping) :
            <<Mapping[i].v.method, Mapping[i].v.confidence>> \in MethodConfidencePairs

\* C15 witness: after an apply_mapping_overrides call the mapping holds an
\* overridden record whose input record had a confidence below 1.00, next to
\* a record that no override changed
C15_Witness ==
    /\ call.op = "apply_mapping_overrides"
    /\ \E i, j \in 1..Len(Mapping) :
         /\ Mapping[i].v.method = "override"
         /\ call.mapping_in[i].v.method # "override"
         /\ call.mapping_in[i].v.confidence < ConfOverride
         /\ Mapping[j].v.method # "override"
         /\ Mapping[j].v = call.mapping_in[j].v

-----------------------------------------------------------------------------
(* Claims about the fuzzy stage *)

\* the similarity of the compact key of h to every synonym (_syn_lc) of every
\* field, with the position of the field in the declaration order
SynonymScores(h) ==
    UNION {{[field |-> i,
             score |-> normalized_similarity(_normalize_header(h),
                                             _normalize_header(truth[i].v._syn_lc[j]))] :
               j \in 1..Len(truth[i].v._syn_lc)} : i \in 1..Len(truth)}
\* the entries of a set of scores that no other entry beats
BestOf(scores) == {x \in scores : \A y \in scores : FracGe(x.score, y.score)}
BestScores(h) == BestOf(SynonymScores(h))
ReachesThreshold(h) ==
    \E x \in BestScores(h) : FracGe(x.score, [num |-> FuzzyThreshold, den |-> 100])

\* C20: a header that no earlier stage matched is accepted by the fuzzy stage
\* (confidence 0.82, method fuzzy) if and only if the highest similarity of
\* its compact key to any synonym of any field is at least 0.85; the field is
\* the owner of the highest-scoring synonym, and of several fields with that
\* score the first in declaration order.
C20_FuzzyStage ==
    call.op = "suggest_mapping" =>
        \A n \in 1..Len(SrcHeaders) :
            LET h == SrcHeaders[n] IN
            (SameKeyFields(h) = {} /\ PatternFields(h) = {} /\ SynonymFields(h) = {}) =>
                \A best \in {BestOf(SynonymScores(h))} :
                    LET fuzzy == DictHas(Mapping, h) /\ DictGet(Mapping, h).method = "fuzzy"
                        reaches == \E x \in best :
                                      FracGe(x.score, [num |-> FuzzyThreshold, den |-> 100])
                    IN  /\ fuzzy <=> reaches
                        /\ fuzzy =>
                             DictGet(Mapping, h) =
                                 Rec(truth[FirstOf({x.field : x \in best})].k,
                                     ConfFuzzy, "fuzzy")

\* C20 witness: a header accepted by the fuzzy stage for the first of two
\* fields that own a synonym with the highest score, next to a header that
\* reaches the fuzzy stage with a best score below the threshold
C20_Witness ==
    /\ call.op = "suggest_mapping"
    /\ \E n \in 1..Len(SrcHeaders) :
         LET h == SrcHeaders[n] IN
         /\ SameKeyFields(h) = {} /\ PatternFields(h) = {} /\ SynonymFields(h) = {}
         /\ DictHas(Mapping, h) /\ DictGet(Mapping, h).method = "fuzzy"
         /\ Cardinality({x.field : x \in BestScores(h)}) >= 2
    /\ \E n \in 1..Len(SrcHeaders) :
         LET h == SrcHeaders[n] IN
         /\ SameKeyFields(h) = {} /\ PatternFields(h) = {} /\ SynonymFields(h) = {}
         /\ SynonymScores(h) # {}
         /\ ~ReachesThreshold(h)
         /\ (DictHas(Mapping, h) => DictGet(Mapping, h).method # "fuzzy")

-----------------------------------------------------------------------------
(* Claims about the order of the issue list *)

\* the position of a field in the declaration order of the schema
KeyIndex(col) == CHOOSE n \in 1..Len(truth) : truth[n].k = col

\* the group of an issue: 0 for the issue of a cell, then the three kinds of
\* issue without a row index in the order of the claim
IssueRank(i) ==
    IF i.row_index # Nothing THEN 0
    ELSE IF i.reason = "Missing column (unmapped)" THEN 1
    ELSE IF i.reason = "Extra column" THEN 2
    ELSE IF i.reason = "New header proposal" THEN 3
    ELSE 4

\* C16: the issue list holds the issues of the cells first, column by column
\* in the declaration order of the schema and row by row inside a column,
\* then "Missing column (unmapped)", then "Extra column", then "New header
\* proposal".
C16_IssueOrder ==
    call.op = "build_proposed_clean_df" =>
        \A i, j \in 1..Len(issues) :
            i < j =>
                /\ IssueRank(issues[j]) # 4
                /\ IssueRank(issues[i]) <= IssueRank(issues[j])
                /\ (issues[i].row_index # Nothing /\ issues[j].row_index # Nothing) =>
                       \/ KeyIndex(issues[i].column) < KeyIndex(issues[j].column)
                       \/ /\ issues[i].column = issues[j].column
                          /\ The(issues[i].row_index) < The(issues[j].row_index)

\* C16 witness: an issue list with the issues of two rows of one column,
\* issues of cells of two columns, an "Extra column" issue and a "New header
\* proposal"
C16_Witness ==
    /\ call.op = "build_proposed_clean_df"
    /\ \E i, j \in 1..Len(issues) :
         /\ issues[i].row_index = Some(0) /\ issues[j].row_index = Some(1)
         /\ issues[i].column = issues[j].column
    /\ \E i, j \in 1..Len(issues) :
         /\ issues[i].row_index # Nothing /\ issues[j].row_index # Nothing
         /\ KeyIndex(issues[i].column) < KeyIndex(issues[j].column)
         /\ SourcesOf(issues[j].column) # {}
    /\ \E i, j \in 1..Len(issues) :
         /\ issues[i].reason = "Extra column"
         /\ issues[j].reason = "New header proposal"

-----------------------------------------------------------------------------
(* Claims about retries *)

\* the number of the first attempt that succeeds among the first
\* MaxRetries + 1, or 0 when they all fail
FirstSuccess(outcomes) ==
    IF \E n \in 1..(MaxRetries + 1) : outcomes[n]
    THEN CHOOSE n \in 1..(MaxRetries + 1) : outcomes[n] /\ \A m \in 1..(n - 1) : ~outcomes[m]
    ELSE 0

\* what holds in every state of a request: never more than max_retries + 1
\* attempts; once the request is over, it ended at the first success, or
\* after max_retries + 1 failures with no result
RetryBounded ==
    /\ call.attempts <= MaxRetries + 1
    /\ call.pc \in {"returned", "done"} /\ FirstSuccess(call.outcomes) # 0 =>
           call.attempts = FirstSuccess(call.outcomes)
    /\ call.pc \in {"raised", "done"} /\ FirstSuccess(call.outcomes) = 0 =>
           call.attempts = MaxRetries + 1
    /\ call.pc = "done" =>
           /\ call.attempts = _with_retries(call.outcomes).attempts
           /\ call.result \in {"result", "no result"}
           /\ FirstSuccess(call.outcomes) = 0 => call.result = "no result"

\* C19: every request sent through _with_retries terminates after at most 3
\* attempts: it ends at the first successful response without a further
\* attempt, and when all attempts fail the calling operation returns no
\* result instead of raising.
C19_RetriesTerminate == []RetryBounded /\ <>[](call.pc = "done")

\* C19 witness: a request that failed three times and whose caller returned
\* no result
C19_Witness ==
    /\ call.pc = "done"
    /\ call.attempts = MaxRetries + 1
    /\ FirstSuccess(call.outcomes) = 0
    /\ call.result = "no result"

-----------------------------------------------------------------------------
(* Claims about the exported table *)

\* C21 as stated: the table offered by the Export step equals the current
\* proposed table, or the current proposed table with the suggestions of the
\* current issue list written into their cells; a final table computed from
\* an earlier Clean/Validate run is never exported after a later run has
\* replaced the proposed table.
C21_ExportFromLatestClean ==
    call.op = "Export" =>
        \/ call.exported = proposed_df
        \/ /\ proposed_df # Nothing
           /\ call.exported = Some(ApplySuggestions(The(proposed_df), issues))

====
